---- MODULE Spec2Model ----
(***************************************************************************)
(* Model of the AQI server (src/src/app.py): the SQLite store, the         *)
(* synthetic generator, the acquisition service with its fallbacks, the    *)
(* startup backfill job and the HTTP handlers.                             *)
(*                                                                         *)
(* Conventions                                                             *)
(*  - Coordinates are fixed-point integers in units of 1e-4 degree, so     *)
(*    40.7128 is 407128 and the 0.1 degree tolerance is 1000.              *)
(*  - Timestamps are integer seconds.                                      *)
(*  - A Python value that may be None / an absent dict key / an SQL NULL   *)
(*    is an option: <<>> for None, <<v>> for the value v.                  *)
(*  - A Python dict whose keys vary is a function whose DOMAIN is the set  *)
(*    of keys present.                                                     *)
(***************************************************************************)
EXTENDS Integers, Sequences, FiniteSets, TLC

VARIABLES
    pc,          \* position of the process: "boot", "file", "backfill", "serving"
    bf_i,        \* index of the next location of the backfill loop
    now,         \* the clock, time.time()
    store,       \* committed rows of table aqi_data, in rowid order
    table,       \* whether table aqi_data exists
    sampleFile,  \* FAKE_DATA_FILE: absent, corrupt, or ok (then: when written, with which draws)
    rng,         \* position of the process's random stream
    api_secret,  \* API_SECRET_KEY of the environment, an option
    last,        \* what the most recent operation was given, did and returned
    nreq,        \* number of HTTP requests handled so far
    boots,       \* number of times the process has been started
    surprises,   \* how many more steps of a startup may meet a provider that
                 \* answers or a disk that fails
    inflight     \* the requests being handled at the same time, each with
                 \* the position of its handler

vars == <<pc, bf_i, now, store, table, sampleFile, rng, api_secret, last, nreq,
          boots, surprises, inflight>>

---------------------------------------------------------------------------
(* Options *)
None == <<>>
Some(v) == <<v>>
IsSome(o) == o # <<>>
Val(o) == o[1]

---------------------------------------------------------------------------
(* Program constants *)
HOUR == 3600
DEG_TENTH == 1000           \* 0.1 degree
DEG_ONE == 10000            \* 1 degree

SRC_API == "OpenWeatherMap API"
SRC_SYNTH == "Synthetic Fallback"
SRC_DB == "Local Database"
SRC_UNKNOWN == "unknown"

\* the eight pollutant columns of aqi_data, in the order of the INSERT
Pollutants == {"pm2_5", "pm10", "co", "no", "no2", "o3", "so2", "nh3"}

\* the fixed location list (lat, lon, name)
locations ==
    << [lat |-> 407128, lon |-> -740060, name |-> "New York"],
       [lat |-> 515074, lon |-> -1278, name |-> "London"],
       [lat |-> 356762, lon |-> 1396503, name |-> "Tokyo"],
       [lat |-> 399042, lon |-> 1164074, name |-> "Beijing"],
       [lat |-> 312304, lon |-> 1214737, name |-> "Shanghai"] >>

Abs(x) == IF x < 0 THEN -x ELSE x

---------------------------------------------------------------------------
(* The store: table aqi_data *)

\* A coordinate value as it appears in an envelope: the upstream provider
\* sends an object {lat, lon}, the generator a two-element list.
CoordList(lat, lon) == [kind |-> "list", elems |-> <<Some(lat), Some(lon)>>]
CoordDict(lat, lon) == [kind |-> "dict", lat |-> lat, lon |-> lon]

\* data.get("coord", {}) followed by the isinstance test: the pair
\* (lat, lon) of options, or a raised IndexError for a list that is too short.
ExtractCoord(data) ==
    LET raw_coord == IF "coord" \in DOMAIN data THEN data.coord
                     ELSE [kind |-> "dict", lat |-> None, lon |-> None]
    IN  IF raw_coord.kind = "dict"
        THEN [ok |-> TRUE, lat |-> raw_coord.lat, lon |-> raw_coord.lon]
        ELSE IF Len(raw_coord.elems) >= 2
             THEN [ok |-> TRUE, lat |-> raw_coord.elems[1], lon |-> raw_coord.elems[2]]
             ELSE [ok |-> FALSE, lat |-> None, lon |-> None]

\* item["components"].get(p): None when the key is absent
ComponentGetOrZero(item, p) ==
    IF p \in DOMAIN Val(item.components) THEN Some(Val(item.components)[p]) ELSE Some(0)
ComponentGet(item, p) ==
    IF p \in DOMAIN Val(item.components) THEN Some(Val(item.components)[p]) ELSE None

\* The INSERT of one item raises when a subscripted key is missing
\* (item["dt"], item["main"]["aqi"], item["components"]) or when a NOT NULL
\* column (timestamp, latitude, longitude, aqi) would receive NULL.
ItemInsertable(item, lat, lon) ==
    /\ IsSome(item.dt)
    /\ IsSome(item.aqi)
    /\ IsSome(item.components)
    /\ IsSome(lat)
    /\ IsSome(lon)

\* the row written by one INSERT; id is the AUTOINCREMENT key, created_at
\* the DEFAULT CURRENT_TIMESTAMP
RowOf(id, item, lat, lon, location_name, source, t) ==
    [ id |-> id,
      timestamp |-> Val(item.dt),
      latitude |-> Val(lat),
      longitude |-> Val(lon),
      aqi |-> Val(item.aqi),
      components |-> [p \in Pollutants |-> ComponentGet(item, p)],
      location_name |-> location_name,
      source |-> source,
      created_at |-> t ]

\* storage faults that the environment may inject into one call
NoFault == [at |-> "none", k |-> 0]

Min(a, b) == IF a < b THEN a ELSE b

\* index of the first item whose INSERT raises, Len+1 when none does
FirstFailing(list, lat, lon, fault) ==
    LET bad == {k \in 1..Len(list) :
                   \/ ~ItemInsertable(list[k], lat, lon)
                   \/ (fault.at = "execute" /\ fault.k = k)}
    IN  IF bad = {} THEN Len(list) + 1
        ELSE CHOOSE k \in bad : \A j \in bad : k <= j

\* The body of the with-block of save_to_database, run on a connection
\* whose pending (uncommitted) content starts as the committed store.
\* Returns the pending content and whether conn.commit() was reached
\* and succeeded.
SaveBodyParameterFirst(st, data, location_name, fault, t) ==
    LET name == IF location_name # None \/ "location_name" \notin DOMAIN data
                THEN location_name
                ELSE data.location_name
        c == ExtractCoord(data)
        list == IF "list" \in DOMAIN data THEN data.list ELSE <<>>
        source == IF "source" \in DOMAIN data THEN data.source ELSE SRC_UNKNOWN
        stop == IF c.ok THEN FirstFailing(list, c.lat, c.lon, fault) ELSE 1
        written == [k \in 1..(stop - 1) |->
                       RowOf(Len(st) + k, list[k], c.lat, c.lon, name, source, t)]
    IN  [ pending |-> st \o written,
          committed |-> /\ fault.at # "connect"
                        /\ c.ok
                        /\ stop = Len(list) + 1
                        /\ fault.at # "commit",
          saved_count |-> stop - 1 ]
SaveBody(st, data, location_name, fault, t) ==
    LET name == IF "location_name" \in DOMAIN data THEN data.location_name
                ELSE location_name
        c == ExtractCoord(data)
        list == IF "list" \in DOMAIN data THEN data.list ELSE <<>>
        source == IF "source" \in DOMAIN data THEN data.source ELSE SRC_UNKNOWN
        stop == IF c.ok THEN FirstFailing(list, c.lat, c.lon, fault) ELSE 1
        written == [k \in 1..(stop - 1) |->
                       RowOf(Len(st) + k, list[k], c.lat, c.lon, name, source, t)]
    IN  [ pending |-> st \o written,
          committed |-> /\ fault.at # "connect"
                        /\ c.ok
                        /\ stop = Len(list) + 1
                        /\ fault.at # "commit",
          saved_count |-> stop - 1 ]

\* get_db: the connection is closed in the finally clause; closing without
\* a commit discards the pending rows.
GetDbCloseNoRollback(st, body) == body.pending
GetDbClose(st, body) == IF body.committed THEN body.pending ELSE st

\* save_to_database: try / except Exception around the with-block
SaveToDatabaseRaises(st, data, location_name, fault, t) ==
    LET body == SaveBody(st, data, location_name, fault, t)
    IN  [store |-> GetDbClose(st, body), raised |-> ~body.committed]
save_to_database(st, data, location_name, fault, t) ==
    LET body == SaveBody(st, data, location_name, fault, t)
    IN  [store |-> GetDbClose(st, body), raised |-> FALSE]

\* WHERE latitude BETWEEN ? AND ? AND longitude BETWEEN ? AND ?
\*   AND timestamp BETWEEN ? AND ?
InRangeStrict(row, lat, lon, start_time, end_time) ==
    /\ lat - DEG_TENTH < row.latitude /\ row.latitude < lat + DEG_TENTH
    /\ lon - DEG_TENTH < row.longitude /\ row.longitude < lon + DEG_TENTH
    /\ start_time < row.timestamp /\ row.timestamp < end_time
InRange(row, lat, lon, start_time, end_time) ==
    /\ lat - DEG_TENTH <= row.latitude /\ row.latitude <= lat + DEG_TENTH
    /\ lon - DEG_TENTH <= row.longitude /\ row.longitude <= lon + DEG_TENTH
    /\ start_time <= row.timestamp /\ row.timestamp <= end_time

\* ORDER BY timestamp; rows of equal timestamp are kept in rowid order
RowBefore(r1, r2) ==
    \/ r1.timestamp < r2.timestamp
    \/ (r1.timestamp = r2.timestamp /\ r1.id < r2.id)

SelectRows(st, lat, lon, start_time, end_time) ==
    SortSeq(SelectSeq(st, LAMBDA r : InRange(r, lat, lon, start_time, end_time)),
            RowBefore)

\* get_historical_from_db: try / except Exception returning []
get_historical_from_db(st, lat, lon, start_time, end_time, fault) ==
    IF fault.at = "none"
    THEN [rows |-> SelectRows(st, lat, lon, start_time, end_time), raised |-> FALSE]
    ELSE [rows |-> <<>>, raised |-> FALSE]

---------------------------------------------------------------------------
(* The synthetic generator *)

\* One call of generate_fake_data consumes one draw of the process's random
\* stream: base is random.uniform(0.3, 0.8) in hundredths, frac the position
\* (in tenths) of the pollutant draws within their ranges.
DrawTable ==
    << [base |-> 30, frac |-> 0],  [base |-> 55, frac |-> 5],  [base |-> 80, frac |-> 10],
       [base |-> 30, frac |-> 5],  [base |-> 55, frac |-> 10], [base |-> 80, frac |-> 0],
       [base |-> 30, frac |-> 10], [base |-> 55, frac |-> 0],  [base |-> 80, frac |-> 5] >>

\* the draw at position r of the stream, and the position after n draws
DrawAt(r) == DrawTable[(r % Len(DrawTable)) + 1]
Advance(r, n) == (r + n) % Len(DrawTable)

\* datetime.fromtimestamp(timestamp).hour, the server running on UTC
HourOf(timestamp) == (timestamp \div HOUR) % 24

\* the location factor in tenths: 1.5 around Beijing, 1.3 around Shanghai
LocationFactor(lat, lon) ==
    IF Abs(lat - 399042) < DEG_ONE /\ Abs(lon - 1164074) < DEG_ONE THEN 15
    ELSE IF Abs(lat - 312304) < DEG_ONE /\ Abs(lon - 1214737) < DEG_ONE THEN 13
    ELSE 10

\* base_pollution after both factors, times 120000:
\* base/100 * factor/10 * (1 + 0.3 * |hour - 12| / 12)
Intensity(lat, lon, timestamp, draw) ==
    draw.base * LocationFactor(lat, lon) * (120 + 3 * Abs(HourOf(timestamp) - 12))

Max(a, b) == IF a > b THEN a ELSE b

\* min(5, max(1, int(1 + base_pollution * 4)))
AqiUnclamped(intensity) == (120000 + 4 * intensity) \div 120000
AqiRounded(intensity) == Min(5, Max(1, (2 * (120000 + 4 * intensity) + 120000) \div 240000))
AqiOf(intensity) == Min(5, Max(1, (120000 + 4 * intensity) \div 120000))

\* offset + random.uniform(lo, hi) * base_pollution, in thousandths
Pollutant(offset, lo, hi, intensity, draw) ==
    offset * 1000 + ((10 * lo + (hi - lo) * draw.frac) * intensity) \div 1200

GeneratedComponents(intensity, draw) ==
    [ co |-> Pollutant(200, -50, 300, intensity, draw),
      no |-> Pollutant(0, 0, 10, intensity, draw),
      no2 |-> Pollutant(0, 0, 50, intensity, draw),
      o3 |-> Pollutant(60, -20, 40, intensity, draw),
      so2 |-> Pollutant(0, 0, 20, intensity, draw),
      pm2_5 |-> Pollutant(0, 0, 75, intensity, draw),
      pm10 |-> Pollutant(0, 0, 150, intensity, draw),
      nh3 |-> Pollutant(0, 0, 10, intensity, draw) ]

\* the single observation of generate_fake_data
GeneratedItem(lat, lon, timestamp, draw) ==
    LET intensity == Intensity(lat, lon, timestamp, draw)
    IN  [ dt |-> Some(timestamp),
          aqi |-> Some(AqiOf(intensity)),
          components |-> Some(GeneratedComponents(intensity, draw)) ]

\* generate_fake_data(lat, lon, timestamp): timestamp is an option, None
\* standing for the default; t is time.time()
generate_fake_data(lat, lon, timestamp, t, draw) ==
    LET ts == IF timestamp = None THEN t ELSE Val(timestamp)
    IN  [ coord |-> CoordList(lat, lon),
          list |-> <<GeneratedItem(lat, lon, ts, draw)>> ]

\* the while loop of generate_bulk_historical_data
RECURSIVE BulkLoop(_, _, _, _, _, _)
BulkLoop(lat, lon, current_time, end_time, r, historical_list) ==
    IF current_time <= end_time
    THEN BulkLoop(lat, lon, current_time + HOUR, end_time, r + 1,
                  historical_list \o
                    generate_fake_data(lat, lon, Some(current_time), 0, DrawAt(r)).list)
    ELSE historical_list

GenerateBulkLastHourOnly(lat, lon, start_time, end_time, r) ==
    [ coord |-> CoordList(lat, lon),
      list |-> generate_fake_data(lat, lon, Some(end_time), 0, DrawAt(r)).list,
      source |-> SRC_SYNTH ]
GenerateBulkExclusiveEnd(lat, lon, start_time, end_time, r) ==
    [ coord |-> CoordList(lat, lon),
      list |-> BulkLoop(lat, lon, start_time, end_time - 1, r, <<>>),
      source |-> SRC_SYNTH ]
generate_bulk_historical_data(lat, lon, start_time, end_time, r) ==
    [ coord |-> CoordList(lat, lon),
      list |-> BulkLoop(lat, lon, start_time, end_time, r, <<>>),
      source |-> SRC_SYNTH ]

\* save_fake_data_to_file: for every location, one sample every three hours
\* of the last 48, newest first; written_at is the clock and r the position
\* of the random stream when the file was written
SamplesPerCity == 16
SampleStepHours == 3

SampleFileItems(written_at, r) ==
    [ n \in 1..(Len(locations) * SamplesPerCity) |->
        LET city == locations[((n - 1) \div SamplesPerCity) + 1]
            hours_ago == ((n - 1) % SamplesPerCity) * SampleStepHours
        IN  [ coord |-> CoordList(city.lat, city.lon),
              list |-> generate_fake_data(city.lat, city.lon,
                          Some(written_at - hours_ago * HOUR), written_at,
                          DrawAt(r + n - 1)).list,
              location_name |-> Some(city.name) ] ]

---------------------------------------------------------------------------
(* The location resolver *)

RECURSIVE ResolveFrom(_, _, _)
ResolveFrom(i, lat, lon) ==
    IF i > Len(locations) THEN None
    ELSE IF Abs(lat - locations[i].lat) < DEG_TENTH /\ Abs(lon - locations[i].lon) < DEG_TENTH
         THEN Some(locations[i].name)
         ELSE ResolveFrom(i + 1, lat, lon)

ResolveLatitudeOnly(lat, lon) ==
    LET hits == {i \in 1..Len(locations) : Abs(lat - locations[i].lat) < DEG_TENTH}
    IN  IF hits = {} THEN None
        ELSE Some(locations[CHOOSE i \in hits : \A j \in hits : i <= j].name)
_get_location_name(lat, lon) == ResolveFrom(1, lat, lon)

---------------------------------------------------------------------------
(* The acquisition service *)

\* d[k] = v on a Python dict
Put(d, k, v) == [x \in (DOMAIN d) \cup {k} |-> IF x = k THEN v ELSE d[x]]

\* What one requests.get can come to: a 2xx response whose body is JSON
\* (an object or some other JSON value), or one of the failures.  The try
\* block - get, raise_for_status, response.json(), data["source"] = ... -
\* completes only for a 2xx response whose body is a JSON object; the item
\* assignment raises TypeError on any other JSON value.
UpstreamFailures == {"network_error", "timeout", "http_error", "malformed_body"}

TryUpstreamUntagged(up) ==
    IF up.kind = "ok" /\ up.body.json = "object"
    THEN [ok |-> TRUE, data |-> up.body.value]
    ELSE [ok |-> FALSE, data |-> <<>>]
TryUpstream(up) ==
    IF up.kind = "ok" /\ up.body.json = "object"
    THEN [ok |-> TRUE, data |-> Put(up.body.value, "source", SRC_API)]
    ELSE [ok |-> FALSE, data |-> <<>>]

\* the first sample of the file within one degree of the request, if any
FirstSample(items, lat, lon) ==
    LET hits == {n \in 1..Len(items) :
                    /\ Abs(Val(items[n].coord.elems[1]) - lat) < DEG_ONE
                    /\ Abs(Val(items[n].coord.elems[2]) - lon) < DEG_ONE}
    IN  IF hits = {} THEN None
        ELSE Some(items[CHOOSE n \in hits : \A m \in hits : n <= m])

\* _get_fallback_data; draws is the number of draws of the random stream
\* the call consumed
_get_fallback_data(lat, lon, file, t, r) ==
    LET location_name == _get_location_name(lat, lon)
        named(d) == IF location_name # None THEN Put(d, "location_name", location_name)
                    ELSE d
        sample == IF file.state = "ok"
                  THEN FirstSample(SampleFileItems(file.written_at, file.seed), lat, lon)
                  ELSE None
    IN  IF file.state = "corrupt"
        THEN \* open / json.load raised: the except branch
             [ data |-> Put(generate_fake_data(lat, lon, None, t, DrawAt(r)),
                            "source", SRC_SYNTH),
               draws |-> 1 ]
        ELSE IF sample # None
        THEN [ data |-> Put(named(Val(sample)), "source", SRC_SYNTH), draws |-> 0 ]
        ELSE [ data |-> Put(named(generate_fake_data(lat, lon, None, t, DrawAt(r))),
                            "source", SRC_SYNTH),
               draws |-> 1 ]

\* _generate_forecast_fallback: range(0, 96, 3) hours ahead
ForecastPoints == 32
ForecastStepHours == 3

GenerateForecastHourly(lat, lon, t, r) ==
    [ coord |-> CoordList(lat, lon),
      list |-> [n \in 1..ForecastPoints |->
                  generate_fake_data(lat, lon, Some(t + (n - 1) * HOUR), t,
                      DrawAt(r + n - 1)).list[1]],
      source |-> SRC_SYNTH ]
_generate_forecast_fallback(lat, lon, t, r) ==
    [ coord |-> CoordList(lat, lon),
      list |-> [n \in 1..ForecastPoints |->
                  generate_fake_data(lat, lon,
                      Some(t + (n - 1) * ForecastStepHours * HOUR), t,
                      DrawAt(r + n - 1)).list[1]],
      source |-> SRC_SYNTH ]

\* fetch_current_aqi, fetch_forecast_aqi, fetch_historical_aqi: one
\* upstream call, whose try block came to try (see TryUpstream); when it
\* did not complete, the fallback
FetchCurrentWithRetry(lat, lon, try, file, t, r) ==
    LET fb == _get_fallback_data(lat, lon, file, t, r)
    IN  IF try.ok
        THEN [data |-> try.data, draws |-> 0, upstream_calls |-> 1]
        ELSE [data |-> fb.data, draws |-> fb.draws, upstream_calls |-> 2]
fetch_current_aqi(lat, lon, try, file, t, r) ==
    LET fb == _get_fallback_data(lat, lon, file, t, r)
    IN  IF try.ok
        THEN [data |-> try.data, draws |-> 0, upstream_calls |-> 1]
        ELSE [data |-> fb.data, draws |-> fb.draws, upstream_calls |-> 1]

fetch_forecast_aqi(lat, lon, try, t, r) ==
    IF try.ok
    THEN [data |-> try.data, draws |-> 0, upstream_calls |-> 1]
    ELSE [data |-> _generate_forecast_fallback(lat, lon, t, r),
          draws |-> ForecastPoints, upstream_calls |-> 1]

fetch_historical_aqi(lat, lon, start, end, try, r) ==
    LET bulk == generate_bulk_historical_data(lat, lon, start, end, r)
    IN  IF try.ok
        THEN [data |-> try.data, draws |-> 0, upstream_calls |-> 1]
        ELSE [data |-> bulk, draws |-> Len(bulk.list), upstream_calls |-> 1]

---------------------------------------------------------------------------
(* Startup: initialize_app *)

HISTORICAL_DAYS == 1        \* length of the historical window in days

\* init_db: CREATE TABLE IF NOT EXISTS / CREATE INDEX IF NOT EXISTS keep
\* the rows of an existing table
InitDbRecreate(st) == <<>>
init_db(st) == st

\* the window of one run of the backfill job
WindowEnd(t) == t
WindowStart(t) == t - HISTORICAL_DAYS * 24 * HOUR

\* len(existing_data) < expected_data_points * 0.8
InsufficientNoMargin(n) == n <= 24 * HISTORICAL_DAYS
Insufficient(n) == 10 * n < 8 * (24 * HISTORICAL_DAYS)

\* one iteration of the loop of populate_initial_historical_data, for
\* location loc, with the outcome try of the upstream call and the storage
\* faults qfault, sfault of the two store calls
PopulateLocationAlways(st, loc, t, r, qfault, try, sfault) ==
    LET start_time == WindowStart(t)
        end_time == WindowEnd(t)
        existing_data == get_historical_from_db(st, loc.lat, loc.lon,
                                                start_time, end_time, qfault).rows
        f == fetch_historical_aqi(loc.lat, loc.lon, start_time, end_time, try, r)
        historical_data == Put(f.data, "location_name", Some(loc.name))
        sv == save_to_database(st, historical_data, Some(loc.name), sfault, t)
    IN  [ store |-> sv.store, draws |-> f.draws, existing |-> Len(existing_data),
          fetched |-> TRUE, upstream_calls |-> f.upstream_calls,
          source |-> f.data.source ]
PopulateLocation(st, loc, t, r, qfault, try, sfault) ==
    LET start_time == WindowStart(t)
        end_time == WindowEnd(t)
        existing_data == get_historical_from_db(st, loc.lat, loc.lon,
                                                start_time, end_time, qfault).rows
        f == fetch_historical_aqi(loc.lat, loc.lon, start_time, end_time, try, r)
        historical_data == Put(f.data, "location_name", Some(loc.name))
        sv == save_to_database(st, historical_data, Some(loc.name), sfault, t)
    IN  IF Insufficient(Len(existing_data))
        THEN [ store |-> sv.store, draws |-> f.draws, existing |-> Len(existing_data),
               fetched |-> TRUE, upstream_calls |-> f.upstream_calls,
               source |-> f.data.source ]
        ELSE [ store |-> st, draws |-> 0, existing |-> Len(existing_data),
               fetched |-> FALSE, upstream_calls |-> 0, source |-> "" ]

---------------------------------------------------------------------------
(* The HTTP handlers *)

\* require_api_key: the header must be present, non-empty and equal to the
\* configured secret
AuthorizedWhenUnconfigured(key, secret) ==
    secret = None \/ (key # None /\ Val(key) # "" /\ key = secret)
Authorized(key, secret) == key # None /\ Val(key) # "" /\ key = secret

\* the truth value of an optional float: None and 0.0 are false
Truthy(x) == x # None /\ Val(x) # 0

\* the truth value of an optional string
NonEmpty(x) == x # None /\ Val(x).kind # "empty"

Unauthorized(st) ==
    [ status |-> 401, body |-> [error |-> "API key is missing or invalid"],
      store |-> st, draws |-> 0, upstream_calls |-> 0, store_calls |-> 0 ]

ErrorResponse(st, status, message, upstream_calls, store_calls) ==
    [ status |-> status, body |-> [error |-> message],
      store |-> st, draws |-> 0, upstream_calls |-> upstream_calls,
      store_calls |-> store_calls ]

\* GET /api/current
GetCurrentWithoutSave(req, secret, st, file, t, r, try, sfault) ==
    IF ~Authorized(req.key, secret) THEN Unauthorized(st)
    ELSE IF ~(Truthy(req.lat) /\ Truthy(req.lon))
    THEN ErrorResponse(st, 400, "Location required (lat/lon)", 0, 0)
    ELSE LET f == fetch_current_aqi(Val(req.lat), Val(req.lon), try, file, t, r)
         IN  [ status |-> 200, body |-> f.data, store |-> st,
               draws |-> f.draws, upstream_calls |-> f.upstream_calls,
               store_calls |-> 1 ]
GetCurrentDefaultingLocation(req, secret, st, file, t, r, try, sfault) ==
    IF ~Authorized(req.key, secret) THEN Unauthorized(st)
    ELSE LET lat == IF req.lat = None THEN 0 ELSE Val(req.lat)
             lon == IF req.lon = None THEN 0 ELSE Val(req.lon)
             f == fetch_current_aqi(lat, lon, try, file, t, r)
             sv == save_to_database(st, f.data, None, sfault, t)
         IN  [ status |-> 200, body |-> f.data, store |-> sv.store,
               draws |-> f.draws, upstream_calls |-> f.upstream_calls,
               store_calls |-> 1 ]
get_current_aqi(req, secret, st, file, t, r, try, sfault) ==
    IF ~Authorized(req.key, secret) THEN Unauthorized(st)
    ELSE IF ~(Truthy(req.lat) /\ Truthy(req.lon))
    THEN ErrorResponse(st, 400, "Location required (lat/lon)", 0, 0)
    ELSE LET f == fetch_current_aqi(Val(req.lat), Val(req.lon), try, file, t, r)
             sv == save_to_database(st, f.data, None, sfault, t)
         IN  IF DOMAIN f.data # {}
             THEN [ status |-> 200, body |-> f.data, store |-> sv.store,
                    draws |-> f.draws, upstream_calls |-> f.upstream_calls,
                    store_calls |-> 1 ]
             ELSE ErrorResponse(st, 500, "Failed to fetch AQI data",
                                f.upstream_calls, 0)

\* GET /api/forecast
GetForecastPersisting(req, secret, st, t, r, try) ==
    IF ~Authorized(req.key, secret) THEN Unauthorized(st)
    ELSE IF ~(Truthy(req.lat) /\ Truthy(req.lon))
    THEN ErrorResponse(st, 400, "Coordinates required", 0, 0)
    ELSE LET f == fetch_forecast_aqi(Val(req.lat), Val(req.lon), try, t, r)
         IN  [ status |-> 200, body |-> f.data,
               store |-> save_to_database(st, f.data, None, NoFault, t).store,
               draws |-> f.draws, upstream_calls |-> f.upstream_calls,
               store_calls |-> 1 ]
get_forecast_aqi(req, secret, st, t, r, try) ==
    IF ~Authorized(req.key, secret) THEN Unauthorized(st)
    ELSE IF ~(Truthy(req.lat) /\ Truthy(req.lon))
    THEN ErrorResponse(st, 400, "Coordinates required", 0, 0)
    ELSE LET f == fetch_forecast_aqi(Val(req.lat), Val(req.lon), try, t, r)
         IN  IF DOMAIN f.data # {}
             THEN [ status |-> 200, body |-> f.data, store |-> st,
                    draws |-> f.draws, upstream_calls |-> f.upstream_calls,
                    store_calls |-> 0 ]
             ELSE ErrorResponse(st, 500, "Failed to fetch forecast data",
                                f.upstream_calls, 0)

\* GET /api/historical; a date parameter is an option of the text sent:
\* empty, not an ISO date, or an ISO date (given by its timestamp)
GetHistoricalWithoutSave(req, secret, st, t, r, qfault, try, sfault) ==
    IF ~Authorized(req.key, secret) THEN Unauthorized(st)
    ELSE IF ~(Truthy(req.lat) /\ Truthy(req.lon)
              /\ NonEmpty(req.start) /\ NonEmpty(req.end))
    THEN ErrorResponse(st, 400, "lat, lon, start, and end parameters required", 0, 0)
    ELSE IF Val(req.start).kind # "iso" \/ Val(req.end).kind # "iso"
    THEN ErrorResponse(st, 400, "Invalid isoformat string", 0, 0)
    ELSE LET lat == Val(req.lat)
             lon == Val(req.lon)
             start_ts == Val(req.start).ts
             end_ts == Val(req.end).ts
             db_data == get_historical_from_db(st, lat, lon, start_ts, end_ts, qfault).rows
             f == fetch_historical_aqi(lat, lon, start_ts, end_ts, try, r)
         IN  IF db_data # <<>>
             THEN [ status |-> 200,
                    body |-> [coord |-> CoordList(lat, lon), list |-> db_data,
                              source |-> SRC_DB],
                    store |-> st, draws |-> 0, upstream_calls |-> 0,
                    store_calls |-> 1 ]
             ELSE [ status |-> 200, body |-> f.data, store |-> st,
                    draws |-> f.draws, upstream_calls |-> f.upstream_calls,
                    store_calls |-> 1 ]
GetHistoricalFetchFirst(req, secret, st, t, r, qfault, try, sfault) ==
    IF ~Authorized(req.key, secret) THEN Unauthorized(st)
    ELSE IF ~(Truthy(req.lat) /\ Truthy(req.lon)
              /\ NonEmpty(req.start) /\ NonEmpty(req.end))
    THEN ErrorResponse(st, 400, "lat, lon, start, and end parameters required", 0, 0)
    ELSE IF Val(req.start).kind # "iso" \/ Val(req.end).kind # "iso"
    THEN ErrorResponse(st, 400, "Invalid isoformat string", 0, 0)
    ELSE LET f == fetch_historical_aqi(Val(req.lat), Val(req.lon),
                                       Val(req.start).ts, Val(req.end).ts, try, r)
             sv == save_to_database(st, f.data, None, sfault, t)
         IN  [ status |-> 200, body |-> f.data, store |-> sv.store,
               draws |-> f.draws, upstream_calls |-> f.upstream_calls,
               store_calls |-> 1 ]
get_historical_aqi(req, secret, st, t, r, qfault, try, sfault) ==
    IF ~Authorized(req.key, secret) THEN Unauthorized(st)
    ELSE IF ~(Truthy(req.lat) /\ Truthy(req.lon)
              /\ NonEmpty(req.start) /\ NonEmpty(req.end))
    THEN ErrorResponse(st, 400, "lat, lon, start, and end parameters required", 0, 0)
    ELSE IF Val(req.start).kind # "iso" \/ Val(req.end).kind # "iso"
    THEN ErrorResponse(st, 400, "Invalid isoformat string", 0, 0)
    ELSE LET lat == Val(req.lat)
             lon == Val(req.lon)
             start_ts == Val(req.start).ts
             end_ts == Val(req.end).ts
             db_data == get_historical_from_db(st, lat, lon, start_ts, end_ts, qfault).rows
             f == fetch_historical_aqi(lat, lon, start_ts, end_ts, try, r)
             sv == save_to_database(st, f.data, None, sfault, t)
         IN  IF db_data # <<>>
             THEN [ status |-> 200,
                    body |-> [coord |-> CoordList(lat, lon), list |-> db_data,
                              source |-> SRC_DB],
                    store |-> st, draws |-> 0, upstream_calls |-> 0,
                    store_calls |-> 1 ]
             ELSE IF DOMAIN f.data # {}
             THEN [ status |-> 200, body |-> f.data, store |-> sv.store,
                    draws |-> f.draws, upstream_calls |-> f.upstream_calls,
                    store_calls |-> 2 ]
             ELSE ErrorResponse(st, 404, "No historical data available",
                                f.upstream_calls, 1)

---------------------------------------------------------------------------
(* Direct use of the store, as the acquisition service and the handlers    *)
(* use it: envelopes as the upstream provider or the generator hand them   *)
(* over, well formed or not, and range queries around them.                *)

Now0 == 1762387200          \* the clock when the model starts

AllComponents(v) == [p \in Pollutants |-> v]

ItemFull == [dt |-> Some(Now0), aqi |-> Some(2),
             components |-> Some(AllComponents(17))]
ItemSparse == [dt |-> Some(Now0 + HOUR), aqi |-> Some(5),
               components |-> Some([pm2_5 |-> 120, co |-> 0])]
ItemLate == [dt |-> Some(Now0 + 2 * HOUR), aqi |-> Some(3),
             components |-> Some([o3 |-> 61])]
ItemNoDt == [dt |-> None, aqi |-> Some(1),
             components |-> Some(AllComponents(1))]

StoreTestLists ==
    { <<>>, <<ItemFull>>, <<ItemSparse, ItemFull>>,
      <<ItemFull, ItemSparse, ItemLate>>, <<ItemFull, ItemNoDt>>, <<ItemNoDt>> }

\* the calls save_to_database(data, location_name) that are tried: the
\* generator's shape (coordinate list, no embedded name), the provider's
\* shape (coordinate object) with an embedded name and no source key, an
\* object without coordinates, a call that passes a name, and one whose
\* envelope embeds a null name
StoreTestCalls ==
    { [data |-> [coord |-> CoordList(locations[1].lat, locations[1].lon),
                 list |-> l, source |-> SRC_API],
       location_name |-> None] : l \in StoreTestLists }
    \cup
    { [data |-> [coord |-> CoordDict(Some(locations[1].lat + DEG_TENTH),
                                     Some(locations[1].lon)),
                 list |-> l, location_name |-> Some("Embedded")],
       location_name |-> Some("Param")] : l \in StoreTestLists }
    \cup
    { [data |-> [coord |-> CoordDict(None, None), list |-> <<ItemFull>>,
                 source |-> SRC_API],
       location_name |-> None],
      [data |-> [coord |-> CoordList(locations[1].lat, locations[1].lon),
                 list |-> <<ItemFull>>, source |-> SRC_SYNTH],
       location_name |-> Some("Param")],
      [data |-> [coord |-> CoordList(locations[1].lat, locations[1].lon),
                 list |-> <<ItemFull>>, source |-> SRC_SYNTH,
                 location_name |-> None],
       location_name |-> Some("Param")] }

\* the faults that can strike one call of save_to_database on this envelope
SaveFaults(data) ==
    {NoFault, [at |-> "connect", k |-> 0], [at |-> "commit", k |-> 0]}
    \cup {[at |-> "execute", k |-> k] :
              k \in 1..(IF "list" \in DOMAIN data THEN Len(data.list) ELSE 0)}

QueryFaults == {NoFault, [at |-> "connect", k |-> 0]}

MaxRows == 3                \* direct inserts never grow the table beyond this many rows

StoreInit ==
    /\ pc = "store"
    /\ bf_i = 1
    /\ now = Now0
    /\ store = <<>>
    /\ table = TRUE
    /\ sampleFile = [state |-> "absent"]
    /\ rng = 0
    /\ api_secret = None
    /\ last = [op |-> "none"]
    /\ nreq = 0
    /\ boots = 0
    /\ surprises = 0
    /\ inflight = <<>>

StoreInsert ==
    /\ \E call \in StoreTestCalls :
         \E fault \in SaveFaults(call.data) :
           LET r == save_to_database(store, call.data, call.location_name, fault, now)
           IN  /\ Len(store) + Len(call.data.list) <= MaxRows
               /\ store' = r.store
               /\ last' = [op |-> "insert", data |-> call.data,
                           location_name |-> call.location_name, fault |-> fault,
                           before |-> store, raised |-> r.raised]
    /\ UNCHANGED <<pc, bf_i, now, table, sampleFile, rng, api_secret, nreq,
                   boots, surprises, inflight>>

StoreTestLats == {locations[1].lat, locations[1].lat - 1, locations[1].lat + 2 * DEG_TENTH}
StoreTestTimes == {Now0, Now0 + HOUR, Now0 + 2 * HOUR}

StoreQuery ==
    /\ \E lat \in StoreTestLats, start_time \in StoreTestTimes,
          end_time \in StoreTestTimes, fault \in QueryFaults :
           LET r == get_historical_from_db(store, lat, locations[1].lon,
                                           start_time, end_time, fault)
           IN  last' = [op |-> "query", lat |-> lat, lon |-> locations[1].lon,
                        start_time |-> start_time, end_time |-> end_time,
                        fault |-> fault, before |-> store,
                        rows |-> r.rows, raised |-> r.raised]
    /\ UNCHANGED <<pc, bf_i, now, store, table, sampleFile, rng, api_secret,
                   nreq, boots, surprises, inflight>>

StoreNext == StoreInsert \/ StoreQuery

SpecStore == StoreInit /\ [][StoreNext]_vars

---------------------------------------------------------------------------
(* The process: startup, then requests *)

\* what the upstream provider can answer
Failed == {[kind |-> k] : k \in UpstreamFailures}
OkObject(value) == [kind |-> "ok", body |-> [json |-> "object", value |-> value]]
OkArray == [kind |-> "ok", body |-> [json |-> "array"]]

ProviderItem(timestamp, aqi) ==
    [dt |-> Some(timestamp), aqi |-> Some(aqi), components |-> Some(AllComponents(42))]

\* answers of the three endpoints: a well-formed envelope, an object that
\* is no envelope, a JSON array, or a failure.  The history endpoint
\* answers with the first two hours of the range.
CurrentAnswers(lat, lon, t) ==
    Failed \cup
    { OkObject([coord |-> CoordDict(Some(lat), Some(lon)),
                list |-> <<ProviderItem(t, 3)>>]),
      OkObject(<<>>),
      OkArray }

ForecastAnswers(lat, lon, t) ==
    Failed \cup
    { OkObject([coord |-> CoordDict(Some(lat), Some(lon)),
                list |-> <<ProviderItem(t, 2), ProviderItem(t + HOUR, 4)>>]),
      OkArray }

HistoryAnswers(lat, lon, start, end) ==
    Failed \cup
    { OkObject([coord |-> CoordDict(Some(lat), Some(lon)),
                list |-> <<ProviderItem(start, 1), ProviderItem(start + HOUR, 2)>>]),
      OkArray }

\* a storage fault of a call during startup or a request: the connection
\* fails, or the call runs undisturbed
ConnectFault == [at |-> "connect", k |-> 0]
StoreFaults == {NoFault, ConnectFault}

Secret == "s3cret"

\* the classes of outcome of the try block over a set of answers
Tries(answers) == {TryUpstream(up) : up \in answers}

\* A machine on which the server is started for the first time: no
\* database, a sample file in one of the states files, the secret one of
\* secrets.  budget is the number of steps of a startup that may meet a
\* provider that answers or a disk that fails; every other step of a
\* startup meets a provider that fails and a disk that works.
LifeInit(budget, files, secrets) ==
    /\ pc = "init_db"
    /\ bf_i = 1
    /\ now = Now0
    /\ store = <<>>
    /\ table = FALSE
    /\ sampleFile \in files
    /\ rng = 0
    /\ api_secret \in secrets
    /\ last = [op |-> "none"]
    /\ nreq = 0
    /\ boots = 1
    /\ surprises = budget
    /\ inflight = <<>>

InitDb ==
    /\ pc = "init_db"
    /\ pc' = "sample_file"
    /\ store' = init_db(store)
    /\ table' = TRUE
    /\ last' = [op |-> "init_db"]
    /\ UNCHANGED <<bf_i, now, sampleFile, rng, api_secret, nreq, boots,
                   surprises, inflight>>

\* if not os.path.exists(FAKE_DATA_FILE): save_fake_data_to_file()
EnsureSampleFile ==
    /\ pc = "sample_file"
    /\ pc' = "backfill"
    /\ bf_i' = 1
    /\ IF sampleFile.state = "absent"
       THEN /\ sampleFile' = [state |-> "ok", written_at |-> now, seed |-> rng]
            /\ rng' = Advance(rng, Len(locations) * SamplesPerCity)
       ELSE UNCHANGED <<sampleFile, rng>>
    /\ last' = [op |-> "sample_file"]
    /\ UNCHANGED <<now, store, table, api_secret, nreq, boots, surprises, inflight>>

\* the rows of st in the box of loc and the window of the run at time t
CoveredRows(st, loc, t) ==
    Len(SelectSeq(st, LAMBDA row :
            InRange(row, loc.lat, loc.lon, WindowStart(t), WindowEnd(t))))

\* one iteration of the loop of populate_initial_historical_data
Backfill ==
    /\ pc = "backfill"
    /\ bf_i <= Len(locations)
    /\ LET loc == locations[bf_i]
           answers == HistoryAnswers(loc.lat, loc.lon, WindowStart(now), WindowEnd(now))
       IN  \E qfault \in StoreFaults :
             LET seen == Len(get_historical_from_db(store, loc.lat, loc.lon,
                                 WindowStart(now), WindowEnd(now), qfault).rows)
             IN  \E try \in (IF Insufficient(seen) THEN Tries(answers)
                             ELSE {TryUpstream([kind |-> "timeout"])}),
                    sfault \in (IF Insufficient(seen) THEN StoreFaults ELSE {NoFault}) :
                   LET surprise == qfault # NoFault \/ try.ok \/ sfault # NoFault
                       p == PopulateLocation(store, loc, now, rng, qfault, try, sfault)
                   IN  /\ surprise => surprises > 0
                       /\ surprises' = IF surprise THEN surprises - 1 ELSE surprises
                       /\ store' = p.store
                       /\ rng' = Advance(rng, p.draws)
                       /\ last' = [op |-> "backfill", i |-> bf_i,
                                   existing |-> p.existing,
                                   fetched |-> p.fetched,
                                   upstream_calls |-> p.upstream_calls,
                                   upstream_ok |-> p.fetched /\ try.ok,
                                   qfault |-> qfault # NoFault,
                                   sfault |-> p.fetched /\ sfault # NoFault,
                                   covered_before |-> CoveredRows(store, loc, now),
                                   len_before |-> Len(store)]
    /\ bf_i' = bf_i + 1
    /\ UNCHANGED <<pc, now, table, sampleFile, api_secret, nreq, boots, inflight>>

\* initialize_app has returned: the server accepts requests
StartServingEarly ==
    /\ pc = "backfill"
    /\ pc' = "serving"
    /\ last' = [op |-> "ready"]
    /\ UNCHANGED <<bf_i, now, store, table, sampleFile, rng, api_secret, nreq,
                   boots, surprises, inflight>>
StartServing ==
    /\ pc = "backfill"
    /\ bf_i > Len(locations)
    /\ pc' = "serving"
    /\ last' = [op |-> "ready"]
    /\ UNCHANGED <<bf_i, now, store, table, sampleFile, rng, api_secret, nreq,
                   boots, surprises, inflight>>

\* the requests that are sent
GoodKey == Some(Secret)

\* New York itself; a point 0.05 degrees from Beijing; a point half a
\* degree north of New York; a point far from every location; a point on
\* the equator; a request without lat and one without lon
PlaceNewYork == [lat |-> Some(locations[1].lat), lon |-> Some(locations[1].lon)]
PlaceNearBeijing == [lat |-> Some(399500), lon |-> Some(1164000)]
PlaceHalfDegree == [lat |-> Some(locations[1].lat + 5000), lon |-> Some(locations[1].lon)]
PlaceRemote == [lat |-> Some(-338688), lon |-> Some(1512093)]
PlaceEquator == [lat |-> Some(0), lon |-> Some(locations[2].lon)]
PlaceNoLat == [lat |-> None, lon |-> Some(locations[1].lon)]
PlaceNoLon == [lat |-> Some(locations[1].lat), lon |-> None]

Places == {PlaceNewYork, PlaceNearBeijing, PlaceHalfDegree, PlaceRemote,
           PlaceEquator, PlaceNoLat, PlaceNoLon}

PointRequests ==
    { [key |-> GoodKey, lat |-> p.lat, lon |-> p.lon] : p \in Places }
    \cup
    { [key |-> k, lat |-> PlaceNewYork.lat, lon |-> PlaceNewYork.lon] :
          k \in {None, Some(""), Some("wrong")} }
    \cup
    { [key |-> None, lat |-> PlaceNoLat.lat, lon |-> PlaceNoLat.lon] }

DateEmpty == [kind |-> "empty"]
DateMalformed == [kind |-> "malformed"]
DateIso(ts) == [kind |-> "iso", ts |-> ts]

\* ranges inside the backfilled window, after it, the wrong way round and
\* half inside it; requests without a parameter or without the key
RangeRequests(t) ==
    { [key |-> GoodKey, lat |-> p.lat, lon |-> p.lon,
       start |-> Some(DateIso(r[1])), end |-> Some(DateIso(r[2]))] :
          p \in {PlaceNewYork, PlaceRemote, PlaceEquator},
          r \in { <<t - 2 * HOUR, t - HOUR>>, <<t + HOUR, t + 3 * HOUR>>,
                  <<t + HOUR, t>> } }
    \cup
    { [key |-> GoodKey, lat |-> PlaceNewYork.lat, lon |-> PlaceNewYork.lon,
       start |-> d[1], end |-> d[2]] :
          d \in { <<None, Some(DateIso(t))>>, <<Some(DateEmpty), Some(DateIso(t))>>,
                  <<Some(DateIso(t)), Some(DateMalformed)>>,
                  <<Some(DateIso(t)), None>> } }
    \cup
    { [key |-> GoodKey, lat |-> p.lat, lon |-> p.lon,
       start |-> Some(DateIso(t - HOUR)), end |-> Some(DateIso(t))] :
          p \in {PlaceNoLat, PlaceNoLon} }
    \cup
    { [key |-> GoodKey, lat |-> PlaceNewYork.lat, lon |-> PlaceNewYork.lon,
       start |-> Some(DateIso(t - HOUR)), end |-> Some(DateIso(t + HOUR))] }
    \cup
    { [key |-> k, lat |-> PlaceNewYork.lat, lon |-> PlaceNewYork.lon,
       start |-> Some(DateIso(t - HOUR)), end |-> Some(DateIso(t))] :
          k \in {None, Some("wrong")} }

\* whether the handler gets as far as its fetch
Admitted(req) == Authorized(req.key, api_secret) /\ Truthy(req.lat) /\ Truthy(req.lon)
AdmittedRange(req) ==
    /\ Admitted(req)
    /\ NonEmpty(req.start) /\ NonEmpty(req.end)
    /\ Val(req.start).kind = "iso" /\ Val(req.end).kind = "iso"

NoTry == TryUpstream([kind |-> "timeout"])

MaxRequests == 1            \* requests handled in one behaviour

CurrentRequest ==
    /\ pc = "serving"
    /\ nreq < MaxRequests
    /\ \E req \in PointRequests :
         \E try \in (IF Admitted(req)
                     THEN Tries(CurrentAnswers(Val(req.lat), Val(req.lon), now))
                     ELSE {NoTry}),
            sfault \in (IF Admitted(req) THEN StoreFaults ELSE {NoFault}) :
           LET h == get_current_aqi(req, api_secret, store, sampleFile, now, rng,
                                    try, sfault)
           IN  /\ store' = h.store
               /\ rng' = Advance(rng, h.draws)
               /\ last' = [op |-> "current", req |-> req,
                           status |-> h.status, body |-> h.body,
                           upstream_calls |-> h.upstream_calls,
                           upstream_ok |-> h.upstream_calls > 0 /\ try.ok,
                           store_calls |-> h.store_calls,
                           qfault |-> FALSE,
                           sfault |-> sfault # NoFault,
                           len_before |-> Len(store)]
    /\ nreq' = nreq + 1
    /\ UNCHANGED <<pc, bf_i, now, table, sampleFile, api_secret, boots,
                   surprises, inflight>>

ForecastRequest ==
    /\ pc = "serving"
    /\ nreq < MaxRequests
    /\ \E req \in PointRequests :
         \E try \in (IF Admitted(req)
                     THEN Tries(ForecastAnswers(Val(req.lat), Val(req.lon), now))
                     ELSE {NoTry}) :
           LET h == get_forecast_aqi(req, api_secret, store, now, rng, try)
           IN  /\ store' = h.store
               /\ rng' = Advance(rng, h.draws)
               /\ last' = [op |-> "forecast", req |-> req,
                           status |-> h.status, body |-> h.body,
                           upstream_calls |-> h.upstream_calls,
                           upstream_ok |-> h.upstream_calls > 0 /\ try.ok,
                           store_calls |-> h.store_calls,
                           qfault |-> FALSE,
                           sfault |-> FALSE,
                           len_before |-> Len(store)]
    /\ nreq' = nreq + 1
    /\ UNCHANGED <<pc, bf_i, now, table, sampleFile, api_secret, boots,
                   surprises, inflight>>

HistoricalRequest ==
    /\ pc = "serving"
    /\ nreq < MaxRequests
    /\ \E req \in RangeRequests(now) :
         \E qfault \in (IF AdmittedRange(req) THEN StoreFaults ELSE {NoFault}) :
           LET found == AdmittedRange(req) /\
                        get_historical_from_db(store, Val(req.lat), Val(req.lon),
                            Val(req.start).ts, Val(req.end).ts, qfault).rows # <<>>
               miss == AdmittedRange(req) /\ ~found
           IN  \E try \in (IF miss
                           THEN Tries(HistoryAnswers(Val(req.lat), Val(req.lon),
                                          Val(req.start).ts, Val(req.end).ts))
                           ELSE {NoTry}),
                  sfault \in (IF miss THEN StoreFaults ELSE {NoFault}) :
                 LET h == get_historical_aqi(req, api_secret, store, now, rng,
                                             qfault, try, sfault)
                 IN  /\ store' = h.store
                     /\ rng' = Advance(rng, h.draws)
                     /\ last' = [op |-> "historical", req |-> req,
                                 status |-> h.status, body |-> h.body,
                                 upstream_calls |-> h.upstream_calls,
                                 upstream_ok |-> h.upstream_calls > 0 /\ try.ok,
                                 store_calls |-> h.store_calls,
                                 qfault |-> qfault # NoFault,
                                 sfault |-> sfault # NoFault,
                                 len_before |-> Len(store)]
    /\ nreq' = nreq + 1
    /\ UNCHANGED <<pc, bf_i, now, table, sampleFile, api_secret, boots,
                   surprises, inflight>>

MaxBoots == 2               \* times the process is started
RestartDelay == 1           \* seconds between the end of a run and the next start

\* the process is stopped and started again on the same machine
Restart ==
    /\ pc = "serving"
    /\ boots < MaxBoots
    /\ pc' = "init_db"
    /\ bf_i' = 1
    /\ now' = now + RestartDelay
    /\ rng' = 0
    /\ boots' = boots + 1
    /\ last' = [op |-> "restart"]
    /\ UNCHANGED <<store, table, sampleFile, api_secret, nreq, surprises, inflight>>

\* The server: it starts while the provider's history endpoint fails and
\* the disk works, handles requests under every upstream outcome and
\* storage fault, and is started again.
Init == LifeInit(0, {[state |-> "absent"], [state |-> "corrupt"]},
                {None, Some(Secret)})

Next ==
    \/ InitDb
    \/ EnsureSampleFile
    \/ Backfill
    \/ StartServing
    \/ CurrentRequest
    \/ ForecastRequest
    \/ HistoricalRequest
    \/ Restart

Spec == Init /\ [][Next]_vars

\* Startup alone, run after run: a step of a startup may meet a provider
\* that answers or a disk that fails.
MaxSurprises == 1           \* steps of startups that meet a surprise

BootInit == LifeInit(MaxSurprises, {[state |-> "absent"]}, {Some(Secret)})

BootNext ==
    \/ InitDb
    \/ EnsureSampleFile
    \/ Backfill
    \/ StartServing
    \/ Restart

SpecBoot == BootInit /\ [][BootNext]_vars

---------------------------------------------------------------------------
(* Two requests handled at the same time.  The server handles each request *)
(* on a thread of its own; a handler's store calls are each one            *)
(* transaction (get_db opens a connection per call), and the calls of two  *)
(* handlers interleave.                                                    *)

\* a Historical request for [start, end] and a Current request
RangeRequest(place, start, end) ==
    [key |-> GoodKey, lat |-> place.lat, lon |-> place.lon,
     start |-> Some(DateIso(start)), end |-> Some(DateIso(end))]
PointRequest(place) == [key |-> GoodKey, lat |-> place.lat, lon |-> place.lon]

\* the requests that are handled together, each with the class of outcome
\* of its upstream call
ConcRequests(t) ==
    UNION { { [op |-> "historical", req |-> RangeRequest(place, r[1], r[2]),
               try |-> try] :
                 try \in Tries(HistoryAnswers(Val(place.lat), Val(place.lon),
                                              r[1], r[2])) } :
            place \in {PlaceRemote, PlaceNewYork},
            r \in { <<t - 2 * HOUR, t - HOUR>>, <<t - HOUR, t>> } }
    \cup
    { [op |-> "current", req |-> PointRequest(PlaceRemote), try |-> try] :
          try \in Tries(CurrentAnswers(Val(PlaceRemote.lat), Val(PlaceRemote.lon), t)) }

\* the position of the random stream at which handler i draws
ConcStream(i) == (i - 1) * 3

\* the handler is entered: a Historical handler is about to read the
\* store, a Current handler is about to fetch and insert
Entered(q) == [ op |-> q.op, req |-> q.req, try |-> q.try,
                at |-> IF q.op = "historical" THEN "read" ELSE "save" ]

ConcInit ==
    /\ pc = "serving"
    /\ bf_i = Len(locations) + 1
    /\ now = Now0
    /\ store = <<>>
    /\ table = TRUE
    /\ sampleFile = [state |-> "absent"]
    /\ rng = 0
    /\ api_secret = Some(Secret)
    /\ last = [op |-> "none", overlap |-> FALSE]
    /\ nreq = 0
    /\ boots = 1
    /\ surprises = 0
    /\ \E q1 \in ConcRequests(Now0), q2 \in ConcRequests(Now0) :
           inflight = <<Entered(q1), Entered(q2)>>

Other(i) == 3 - i

\* handler i makes a store call while the other handler is between two of
\* its own
Overlaps(i) ==
    LET o == inflight[Other(i)]
    IN  o.op = "historical" /\ o.at = "save"

\* service.get_historical_from_db(lat, lon, start_ts, end_ts) of handler i
ConcRead(i) ==
    /\ inflight[i].at = "read"
    /\ LET q == inflight[i]
           db_data == get_historical_from_db(store, Val(q.req.lat), Val(q.req.lon),
                          Val(q.req.start).ts, Val(q.req.end).ts, NoFault).rows
       IN  inflight' = [inflight EXCEPT
                           ![i].at = IF db_data # <<>> THEN "done" ELSE "save"]
    /\ last' = [op |-> "read", overlap |-> last.overlap \/ Overlaps(i)]
    /\ UNCHANGED <<pc, bf_i, now, store, table, sampleFile, rng, api_secret, nreq,
                   boots, surprises>>

\* the fetch of handler i and its service.save_to_database
ConcSave(i) ==
    /\ inflight[i].at = "save"
    /\ LET q == inflight[i]
           lat == Val(q.req.lat)
           lon == Val(q.req.lon)
           data == IF q.op = "historical"
                   THEN fetch_historical_aqi(lat, lon, Val(q.req.start).ts,
                            Val(q.req.end).ts, q.try, ConcStream(i)).data
                   ELSE fetch_current_aqi(lat, lon, q.try, sampleFile, now,
                            ConcStream(i)).data
       IN  store' = save_to_database(store, data, None, NoFault, now).store
    /\ inflight' = [inflight EXCEPT ![i].at = "done"]
    /\ last' = [op |-> "save", overlap |-> last.overlap \/ Overlaps(i)]
    /\ UNCHANGED <<pc, bf_i, now, table, sampleFile, rng, api_secret, nreq,
                   boots, surprises>>

ConcNext == \E i \in {1, 2} : ConcRead(i) \/ ConcSave(i)

SpecConc == ConcInit /\ [][ConcNext]_vars

\* the store after handler i has run alone, from entry to response, on st
HandledAlone(st, i) ==
    LET q == inflight[i]
    IN  IF q.op = "historical"
        THEN get_historical_aqi(q.req, api_secret, st, now, ConcStream(i),
                                NoFault, q.try, NoFault).store
        ELSE get_current_aqi(q.req, api_secret, st, sampleFile, now, ConcStream(i),
                             q.try, NoFault).store

\* the stores that the two requests leave when one is handled after the other
SequentialStores ==
    { HandledAlone(HandledAlone(<<>>, i), Other(i)) : i \in {1, 2} }

---------------------------------------------------------------------------
(* Historical requests one after the other on a server whose table is      *)
(* empty, against a provider that fails, answers with observations, or     *)
(* answers with an empty list.                                             *)

MaxRepeats == 3             \* Historical requests handled in one behaviour

\* two places, each with a range of one hour and a range of one instant
RepeatRequests ==
    { [key |-> GoodKey, lat |-> p.lat, lon |-> p.lon,
       start |-> Some(DateIso(r[1])), end |-> Some(DateIso(r[2]))] :
          p \in {PlaceNewYork, PlaceRemote},
          r \in { <<Now0 - 2 * HOUR, Now0 - HOUR>>, <<Now0, Now0>> } }

RepeatAnswers(lat, lon, start, end) ==
    HistoryAnswers(lat, lon, start, end)
    \cup { OkObject([coord |-> CoordDict(Some(lat), Some(lon)), list |-> <<>>]) }

RepeatInit ==
    /\ pc = "serving"
    /\ bf_i = Len(locations) + 1
    /\ now = Now0
    /\ store = <<>>
    /\ table = TRUE
    /\ sampleFile = [state |-> "absent"]
    /\ rng = 0
    /\ api_secret = Some(Secret)
    /\ last = [op |-> "none"]
    /\ nreq = 0
    /\ boots = 1
    /\ surprises = 0
    /\ inflight = <<>>

HistoricalRepeat ==
    /\ pc = "serving"
    /\ nreq < MaxRepeats
    /\ \E req \in RepeatRequests, qfault \in StoreFaults :
         LET lat == Val(req.lat)
             lon == Val(req.lon)
             start == Val(req.start).ts
             end == Val(req.end).ts
             miss == get_historical_from_db(store, lat, lon, start, end,
                                            qfault).rows = <<>>
         IN  \E try \in (IF miss THEN Tries(RepeatAnswers(lat, lon, start, end))
                         ELSE {NoTry}),
                sfault \in (IF miss THEN StoreFaults ELSE {NoFault}) :
               LET h == get_historical_aqi(req, api_secret, store, now, rng,
                                           qfault, try, sfault)
               IN  /\ store' = h.store
                   /\ rng' = Advance(rng, h.draws)
                   /\ last' = [op |-> "historical", req |-> req,
                               status |-> h.status, body |-> h.body,
                               upstream_calls |-> h.upstream_calls,
                               upstream_ok |-> h.upstream_calls > 0 /\ try.ok,
                               store_calls |-> h.store_calls,
                               qfault |-> qfault # NoFault,
                               sfault |-> sfault # NoFault,
                               len_before |-> Len(store)]
    /\ nreq' = nreq + 1
    /\ UNCHANGED <<pc, bf_i, now, table, sampleFile, api_secret, boots,
                   surprises, inflight>>

RepeatNext == HistoricalRepeat

SpecRepeat == RepeatInit /\ [][RepeatNext]_vars

---------------------------------------------------------------------------
(* The two writers of location names: direct calls of save_to_database and *)
(* one iteration of the backfill loop, on a provider that may embed a name *)
(* of its own in its answer.                                               *)

NamedHistoryAnswer(lat, lon, start) ==
    OkObject([coord |-> CoordDict(Some(lat), Some(lon)),
              list |-> <<ProviderItem(start, 1)>>,
              location_name |-> Some("Elsewhere")])

\* the iteration is run for one location, first thing on the table as created
StorePopulate ==
    /\ last.op = "none"
    /\ \E i \in 1..Len(locations), qfault \in StoreFaults, sfault \in StoreFaults :
         LET loc == locations[i]
             answers == HistoryAnswers(loc.lat, loc.lon, WindowStart(now), WindowEnd(now))
                        \cup {NamedHistoryAnswer(loc.lat, loc.lon, WindowStart(now))}
         IN  \E try \in Tries(answers) :
               LET p == PopulateLocation(store, loc, now, rng, qfault, try, sfault)
               IN  /\ store' = p.store
                   /\ rng' = Advance(rng, p.draws)
                   /\ last' = [op |-> "populate", i |-> i, before |-> store,
                               fetched |-> p.fetched, upstream_ok |-> try.ok,
                               answer |-> try.data]
    /\ UNCHANGED <<pc, bf_i, now, table, sampleFile, api_secret, nreq, boots,
                   surprises, inflight>>

\* direct inserts, one after the other
NamesInsert == last.op # "populate" /\ StoreInsert

NamesNext == NamesInsert \/ StorePopulate

SpecNames == StoreInit /\ [][NamesNext]_vars

---------------------------------------------------------------------------
(* The generator and the fallbacks of the acquisition service, applied to  *)
(* coordinates, times and positions of the random stream.                  *)

MaxGenHours == 23           \* generated timestamps span this many hours after Now0
MaxRangeHours == 3          \* generated ranges span up to this many whole hours

\* the five fixed locations, a point near Beijing and a point far from all
GenPlaces ==
    { [lat |-> locations[n].lat, lon |-> locations[n].lon] : n \in 1..Len(locations) }
    \cup { [lat |-> Val(PlaceNearBeijing.lat), lon |-> Val(PlaceNearBeijing.lon)],
           [lat |-> Val(PlaceRemote.lat), lon |-> Val(PlaceRemote.lon)] }

\* a timestamp in every hour of the day, on the hour and one second before
GenTimes == { Now0 + h * HOUR - o : h \in 0..MaxGenHours, o \in {0, 1} }

\* lengths of ranges: whole hours, one second more, one second less
GenLengths == { h * HOUR + o : h \in 0..MaxRangeHours, o \in {-1, 0, 1} }

GenClocks == { Now0, Now0 + 13 * HOUR + 1 }

\* the sample file a call may find: none, one that cannot be parsed, one
\* written six hours before Now0
GenFiles ==
    { [state |-> "absent"], [state |-> "corrupt"],
      [state |-> "ok", written_at |-> Now0 - 6 * HOUR, seed |-> 4] }

GenInit ==
    /\ pc = "generator"
    /\ bf_i = 1
    /\ now \in GenClocks
    /\ store = <<>>
    /\ table = FALSE
    /\ sampleFile \in GenFiles
    /\ rng \in 0..(Len(DrawTable) - 1)
    /\ api_secret = None
    /\ last = [op |-> "none"]
    /\ nreq = 0
    /\ boots = 0
    /\ surprises = 0
    /\ inflight = <<>>

\* FakeDataGenerator.generate_fake_data(lat, lon, timestamp)
Generate ==
    /\ pc = "generator"
    /\ pc' = "generated"
    /\ \E place \in GenPlaces, timestamp \in {None} \cup {Some(ts) : ts \in GenTimes} :
         last' = [op |-> "generate", lat |-> place.lat, lon |-> place.lon,
                  timestamp |-> timestamp, draw |-> DrawAt(rng),
                  data |-> generate_fake_data(place.lat, place.lon, timestamp, now,
                                              DrawAt(rng))]
    /\ rng' = Advance(rng, 1)
    /\ UNCHANGED <<bf_i, now, store, table, sampleFile, api_secret, nreq, boots,
                   surprises, inflight>>

\* FakeDataGenerator.generate_bulk_historical_data(lat, lon, start, end) and
\* AQIService.fetch_historical_aqi(lat, lon, start, end)
GenerateRange ==
    /\ pc = "generator"
    /\ pc' = "generated"
    /\ \E place \in GenPlaces, start \in {Now0, Now0 + 1}, length \in GenLengths :
         \E try \in Tries(HistoryAnswers(place.lat, place.lon, start, start + length)) :
           LET end == start + length
               f == fetch_historical_aqi(place.lat, place.lon, start, end, try, rng)
           IN  /\ last' = [op |-> "range", lat |-> place.lat, lon |-> place.lon,
                           start |-> start, end |-> end,
                           data |-> generate_bulk_historical_data(place.lat, place.lon,
                                        start, end, rng),
                           upstream_ok |-> try.ok,
                           fetched |-> f.data]
               /\ rng' = Advance(rng, f.draws)
    /\ UNCHANGED <<bf_i, now, store, table, sampleFile, api_secret, nreq, boots,
                   surprises, inflight>>

\* AQIService.fetch_forecast_aqi(lat, lon)
GenerateForecast ==
    /\ pc = "generator"
    /\ pc' = "generated"
    /\ \E place \in GenPlaces :
         \E try \in Tries(ForecastAnswers(place.lat, place.lon, now)) :
           LET f == fetch_forecast_aqi(place.lat, place.lon, try, now, rng)
           IN  /\ last' = [op |-> "forecast_fetch", lat |-> place.lat,
                           lon |-> place.lon, t |-> now,
                           upstream_ok |-> try.ok,
                           fetched |-> f.data]
               /\ rng' = Advance(rng, f.draws)
    /\ UNCHANGED <<bf_i, now, store, table, sampleFile, api_secret, nreq, boots,
                   surprises, inflight>>

\* distances from a location, in 1e-4 degree: just inside and just outside
\* the tolerance, 0.0458 and half a degree.  At a distance of exactly 0.1
\* the binary subtraction of the two floats decides, so it is not tried.
ResolveOffsets == {-(DEG_TENTH + 1), -(DEG_TENTH - 1), 0, 458, DEG_TENTH - 1,
                   DEG_TENTH + 1, 5 * DEG_TENTH}

ResolvePlaces ==
    { [lat |-> locations[n].lat + a, lon |-> locations[n].lon + b] :
          n \in 1..Len(locations), a \in ResolveOffsets, b \in ResolveOffsets }
    \cup { [lat |-> 399500, lon |-> 1164000], [lat |-> 399500, lon |-> 1180000] }

\* AQIService._get_location_name(lat, lon)
Resolve ==
    /\ pc = "generator"
    /\ pc' = "generated"
    /\ \E place \in ResolvePlaces :
         last' = [op |-> "resolve", lat |-> place.lat, lon |-> place.lon,
                  name |-> _get_location_name(place.lat, place.lon)]
    /\ UNCHANGED <<bf_i, now, store, table, sampleFile, rng, api_secret, nreq,
                   boots, surprises, inflight>>

\* the places of the generator, a point half a degree from New York, and
\* points just inside and just outside one degree from Tokyo
FallbackPlaces ==
    GenPlaces
    \cup { [lat |-> Val(PlaceHalfDegree.lat), lon |-> Val(PlaceHalfDegree.lon)],
           [lat |-> locations[3].lat + (DEG_ONE - 1), lon |-> locations[3].lon - (DEG_ONE - 1)],
           [lat |-> locations[3].lat + (DEG_ONE + 1), lon |-> locations[3].lon] }

\* AQIService._get_fallback_data(lat, lon)
Fallback ==
    /\ pc = "generator"
    /\ pc' = "generated"
    /\ \E place \in FallbackPlaces :
         LET f == _get_fallback_data(place.lat, place.lon, sampleFile, now, rng)
         IN  /\ last' = [op |-> "fallback", lat |-> place.lat, lon |-> place.lon,
                         draw |-> DrawAt(rng), data |-> f.data, draws |-> f.draws]
             /\ rng' = Advance(rng, f.draws)
    /\ UNCHANGED <<bf_i, now, store, table, sampleFile, api_secret, nreq, boots,
                   surprises, inflight>>

GenNext == Generate \/ GenerateRange \/ GenerateForecast \/ Resolve \/ Fallback

SpecGen == GenInit /\ [][GenNext]_vars

---------------------------------------------------------------------------
(* Properties of the store *)

RangeOf(seq) == {seq[i] : i \in 1..Len(seq)}

\* the rows of st that were already there are still there, unchanged
IsPrefix(s1, s2) == Len(s1) <= Len(s2) /\ \A i \in 1..Len(s1) : s1[i] = s2[i]

\* an envelope with a row that cannot be written
EnvelopeMalformed(data) ==
    \E k \in 1..Len(data.list) :
        \/ data.list[k].dt = None
        \/ data.list[k].aqi = None
        \/ data.list[k].components = None
        \/ data.coord.kind = "dict" /\ (data.coord.lat = None \/ data.coord.lon = None)

\* C3: a storage failure never propagates past the store boundary: when
\* connecting, writing, committing or reading fails, or a row of the
\* envelope is malformed, save_to_database returns normally and leaves the
\* table as it was, and get_historical_from_db returns the empty sequence;
\* neither raises to its caller.
C3_StorageFailureContained ==
    /\ last.op = "insert" =>
          /\ ~last.raised
          /\ (last.fault.at # "none" \/ EnvelopeMalformed(last.data))
                => store = last.before
    /\ last.op = "query" =>
          /\ ~last.raised
          /\ last.fault.at # "none" => last.rows = <<>>

\* the second INSERT of a batch failed after the first had been executed,
\* and the call returned without raising
C3_Witness ==
    /\ last.op = "insert"
    /\ last.fault.at = "execute" /\ last.fault.k = 2
    /\ ~EnvelopeMalformed(last.data)
    /\ ~last.raised
    /\ store = last.before

\* C4: insert is atomic for its batch: after a call of save_to_database the
\* table holds a new row for every observation of the envelope's list or no
\* new row at all (rows executed before a failure are not visible), and a
\* range query never changes the table.
C4_InsertAtomic ==
    /\ last.op = "insert" =>
          \/ store = last.before
          \/ /\ Len(store) = Len(last.before) + Len(last.data.list)
             /\ IsPrefix(last.before, store)
             /\ \A k \in 1..Len(last.data.list) :
                    store[Len(last.before) + k].timestamp = Val(last.data.list[k].dt)
    /\ last.op = "query" => store = last.before

\* a batch of three whose third observation failed left no row behind
C4_Witness ==
    /\ last.op = "insert"
    /\ Len(last.data.list) = 3
    /\ last.fault.at = "execute" /\ last.fault.k = 3
    /\ store = last.before

\* the coordinates of an envelope as numbers, when it has them
EnvLat(data) == IF data.coord.kind = "dict" THEN data.coord.lat ELSE data.coord.elems[1]
EnvLon(data) == IF data.coord.kind = "dict" THEN data.coord.lon ELSE data.coord.elems[2]

\* the insert recorded in ins went through, and the query recorded in q
\* asks for a box that holds the envelope's coordinates and a time range
\* that covers all its timestamps, where the table had no row before
RoundTripCase(ins, q) ==
    /\ ins.op = "insert" /\ q.op = "query"
    /\ ins.fault.at = "none" /\ q.fault.at = "none"
    /\ ~EnvelopeMalformed(ins.data)
    /\ IsSome(EnvLat(ins.data)) /\ IsSome(EnvLon(ins.data))
    /\ Abs(Val(EnvLat(ins.data)) - q.lat) <= DEG_TENTH
    /\ Abs(Val(EnvLon(ins.data)) - q.lon) <= DEG_TENTH
    /\ \A k \in 1..Len(ins.data.list) :
           /\ q.start_time <= Val(ins.data.list[k].dt)
           /\ Val(ins.data.list[k].dt) <= q.end_time
    /\ \A r \in RangeOf(ins.before) :
           ~(/\ Abs(r.latitude - q.lat) <= DEG_TENTH
             /\ Abs(r.longitude - q.lon) <= DEG_TENTH
             /\ q.start_time <= r.timestamp /\ r.timestamp <= q.end_time)

\* the rows returned are the observations inserted, one each, with the
\* values inserted and null for every pollutant the observation lacks
RoundTripResult(ins, q) ==
    /\ Len(q.rows) = Len(ins.data.list)
    /\ \A k \in 1..Len(ins.data.list) :
         \E i \in 1..Len(q.rows) :
            LET item == ins.data.list[k]
                row == q.rows[i]
            IN  /\ row.id = Len(ins.before) + k
                /\ row.timestamp = Val(item.dt)
                /\ row.aqi = Val(item.aqi)
                /\ \A p \in Pollutants :
                      row.components[p] =
                         IF p \in DOMAIN Val(item.components)
                         THEN Some(Val(item.components)[p]) ELSE None

\* C6: store round trip: from a table with no row in the queried box and
\* range, inserting an envelope of N observations and then querying a box
\* around its coordinates over a range covering its timestamps returns
\* exactly N rows with the timestamps, AQI and pollutant values inserted;
\* absent pollutants come back as null, not as zero.
C6_RoundTrip == [][RoundTripCase(last, last') => RoundTripResult(last, last')]_vars

\* a query returned the three rows of a batch, one of which has a zero and
\* nulls among its pollutants
C6_Witness ==
    /\ last.op = "query" /\ last.fault.at = "none"
    /\ Len(last.rows) = 3 /\ Len(last.before) = 3
    /\ \E i \in 1..3 :
          /\ last.rows[i].components["co"] = Some(0)
          /\ last.rows[i].components["pm10"] = None

\* C7: query_range returns exactly the stored rows whose latitude is in
\* [lat-0.1, lat+0.1], whose longitude is in [lon-0.1, lon+0.1] and whose
\* timestamp is in [start, end], bounds included, ordered by timestamp
\* ascending.
C7_RangeQueryExact ==
    (last.op = "query" /\ last.fault.at = "none") =>
        /\ \A r \in RangeOf(last.before) :
              r \in RangeOf(last.rows) <=>
                 /\ last.lat - DEG_TENTH <= r.latitude
                 /\ r.latitude <= last.lat + DEG_TENTH
                 /\ last.lon - DEG_TENTH <= r.longitude
                 /\ r.longitude <= last.lon + DEG_TENTH
                 /\ last.start_time <= r.timestamp
                 /\ r.timestamp <= last.end_time
        /\ RangeOf(last.rows) \subseteq RangeOf(last.before)
        /\ Len(last.rows) = Cardinality(RangeOf(last.rows))
        /\ \A i \in 1..Len(last.rows), j \in 1..Len(last.rows) :
              i < j => last.rows[i].timestamp <= last.rows[j].timestamp

\* a query whose result holds a row at start, a row at end and a row on the
\* edge of the box, while the table holds a row that is left out
C7_Witness ==
    /\ last.op = "query" /\ last.fault.at = "none"
    /\ last.start_time < last.end_time
    /\ \E i \in 1..Len(last.rows) : last.rows[i].timestamp = last.start_time
    /\ \E i \in 1..Len(last.rows) : last.rows[i].timestamp = last.end_time
    /\ \E i \in 1..Len(last.rows) : last.rows[i].latitude = last.lat + DEG_TENTH
    /\ \E r \in RangeOf(last.before) : r \notin RangeOf(last.rows)


---------------------------------------------------------------------------
(* Properties of the handlers and of the acquisition service *)

IsRequest(l) == l.op \in {"current", "forecast", "historical"}

\* the request carries the configured secret, both coordinates and, for the
\* history endpoint, two ISO dates
RequestValid(l) ==
    /\ api_secret # None /\ l.req.key = api_secret
    /\ l.req.lat # None /\ l.req.lon # None
    /\ l.op = "historical" =>
          /\ l.req.start # None /\ Val(l.req.start).kind = "iso"
          /\ l.req.end # None /\ Val(l.req.end).kind = "iso"

\* a Reading Envelope: coordinates, a list of observations, a source tag
IsEnvelope(body) == {"coord", "list", "source"} \subseteq DOMAIN body

\* C1: every authenticated request with valid parameters is answered, under
\* every upstream outcome, with status 200 and a Reading Envelope.
C1_AlwaysEnvelope ==
    (IsRequest(last) /\ RequestValid(last)) =>
        (last.status = 200 /\ IsEnvelope(last.body))

\* an authenticated request on the equator (lat = 0, lon given) was
\* answered 400
C1_EquatorRejected ==
    /\ IsRequest(last) /\ RequestValid(last)
    /\ Val(last.req.lat) = 0
    /\ last.status = 400

\* the upstream call of a valid request failed and the answer is a 5xx or 404
UpstreamFailureSurfaced ==
    /\ IsRequest(last) /\ RequestValid(last)
    /\ last.upstream_calls > 0 /\ ~last.upstream_ok
    /\ last.status \in {404, 500}

\* no upstream failure is answered with the 500 or the 404 of the handlers
NoUpstreamFailureSurfaced == ~UpstreamFailureSurfaced

\* C2: when the upstream call of the Current operation fails, the envelope
\* returned is tagged "Synthetic Fallback", holds exactly one observation,
\* and carries the location name when the coordinates match a known
\* location.
C2_FallbackEnvelope ==
    (last.op = "current" /\ last.status = 200 /\ ~last.upstream_ok) =>
        LET name == _get_location_name(Val(last.req.lat), Val(last.req.lon))
        IN  /\ IsEnvelope(last.body)
            /\ last.body.source = SRC_SYNTH
            /\ Len(last.body.list) = 1
            /\ name # None =>
                  /\ "location_name" \in DOMAIN last.body
                  /\ last.body.location_name = name

\* the sample file cannot be read, the upstream call for New York failed,
\* and the envelope returned has no location name
C2_NamelessFallback ==
    /\ last.op = "current" /\ last.status = 200 /\ ~last.upstream_ok
    /\ sampleFile.state = "corrupt"
    /\ last.req.lat = PlaceNewYork.lat /\ last.req.lon = PlaceNewYork.lon
    /\ last.body.source = SRC_SYNTH /\ Len(last.body.list) = 1
    /\ "location_name" \notin DOMAIN last.body

\* C5: the store only grows: every step of startup, backfill and request
\* handling keeps every row that was present, in place and unchanged.
C5_StoreMonotonic == [][IsPrefix(store, store')]_vars

\* a request added a row to a store that held the backfilled rows, in a
\* process that was started a second time on that store
C5_Witness ==
    /\ IsRequest(last)
    /\ boots = 2
    /\ last.len_before >= Len(locations) * (24 * HISTORICAL_DAYS + 1)
    /\ Len(store) > last.len_before

---------------------------------------------------------------------------
(* Properties of the backfill job *)

\* 80% of the expected hourly count of the window
Covered(n) == 10 * n >= 8 * (24 * HISTORICAL_DAYS)

CoveredNow(i) == CoveredRows(store, locations[i], now)

\* C8 as stated: a location with no row in its window has at least 80% of
\* the expected rows after the job's step for it, whatever the upstream
\* history call came to (the store itself working).
C8_RepairsEveryOutcome ==
    (last.op = "backfill" /\ last.covered_before = 0
        /\ ~last.qfault /\ ~last.sfault) =>
        Covered(CoveredNow(last.i))

\* C8: a location with no row in its window has at least 80% of the
\* expected rows after the job's step for it, when the upstream history
\* call did not complete (the synthetic series is stored) and the insert
\* did not fail.
C8_RepairsOnFallback ==
    (last.op = "backfill" /\ last.covered_before = 0
        /\ ~last.upstream_ok /\ ~last.sfault) =>
        /\ last.fetched
        /\ Covered(CoveredNow(last.i))

\* the step for London found nothing, the provider failed, and the window
\* now holds the whole hourly series
C8_Witness ==
    /\ last.op = "backfill" /\ last.i = 2
    /\ last.covered_before = 0 /\ last.fetched
    /\ ~last.upstream_ok /\ ~last.sfault
    /\ CoveredNow(2) = 24 * HISTORICAL_DAYS + 1

C10_SecondRunNoChange == [][boots >= 2 => store' = store]_vars

AllCovered == \A i \in 1..Len(locations) : Covered(CoveredNow(i))

\* C10: a run of the job right after a first changes nothing in the store,
\* when the first left every location's window with at least 80% of the
\* expected rows and no coverage query of the second fails.
C10_SecondRunNoChangeWhenCovered ==
    [][(boots >= 2 /\ AllCovered /\ (last'.op = "backfill" => ~last'.qfault))
          => store' = store]_vars

\* a second run has finished on a store every window of which was covered,
\* and the store holds what the first run left
C10_Witness ==
    /\ boots = 2 /\ pc = "serving" /\ last.op = "ready"
    /\ AllCovered
    /\ Len(store) = Len(locations) * (24 * HISTORICAL_DAYS + 1)


---------------------------------------------------------------------------
(* Properties of persistence *)

\* the observations of a response body
Observations(body) == IF "list" \in DOMAIN body THEN body.list ELSE <<>>

\* a Current request, or a Historical request that was not served from the
\* store, was answered 200 and no store call of it failed
FetchedAndSaved(l) ==
    /\ l.op \in {"current", "historical"}
    /\ l.status = 200
    /\ l.body.source # SRC_DB
    /\ ~l.sfault

\* C11: after a Current request, or a Historical request not served from
\* the store, that was answered 200 without a storage failure, the store
\* holds one new row for each observation of the returned envelope, with
\* the observation's timestamp and category and the envelope's source tag.
C11_FetchPersisted ==
    FetchedAndSaved(last) =>
        LET obs == Observations(last.body)
        IN  /\ Len(store) = last.len_before + Len(obs)
            /\ \A k \in 1..Len(obs) :
                   LET row == store[last.len_before + k]
                   IN  /\ row.timestamp = Val(obs[k].dt)
                       /\ row.aqi = Val(obs[k].aqi)
                       /\ row.source = last.body.source

\* a Historical request for an uncovered range was answered with the
\* synthetic series, and its three hourly observations are in the store
C11_Witness ==
    /\ FetchedAndSaved(last) /\ last.op = "historical"
    /\ last.body.source = SRC_SYNTH
    /\ Len(Observations(last.body)) = 3
    /\ Len(store) = last.len_before + 3
    /\ store[Len(store)].source = SRC_SYNTH


\* C12: a Forecast request, answered by the provider or by the synthetic
\* fallback, makes no store call and leaves the store unchanged.
C12_ForecastNotPersisted ==
    [][last'.op = "forecast" => (store' = store /\ last'.store_calls = 0)]_vars

\* a forecast of 32 synthetic points was returned over a store that holds
\* the backfilled rows, and the store holds what it held
C12_Witness ==
    /\ last.op = "forecast" /\ last.status = 200
    /\ last.body.source = SRC_SYNTH /\ Len(last.body.list) = ForecastPoints
    /\ last.len_before > 0
    /\ Len(store) = last.len_before

\* the provider's forecast was returned, and the store holds what it held
C12_UpstreamForecastReturned ==
    /\ last.op = "forecast" /\ last.status = 200
    /\ last.body.source = SRC_API
    /\ Len(store) = last.len_before


---------------------------------------------------------------------------
(* Properties of the upstream calls *)

\* C13: a request or a backfill step makes at most one upstream call, and
\* a request whose one call failed is answered with the synthetic fallback.
C13_NoRetry ==
    /\ (IsRequest(last) \/ last.op = "backfill") => last.upstream_calls <= 1
    /\ (IsRequest(last) /\ last.upstream_calls = 1 /\ ~last.upstream_ok) =>
          (last.status = 200 /\ last.body.source = SRC_SYNTH)

\* the one upstream call of a Current request failed and the synthetic
\* envelope was returned
C13_Witness ==
    /\ last.op = "current"
    /\ last.upstream_calls = 1 /\ ~last.upstream_ok
    /\ last.status = 200 /\ last.body.source = SRC_SYNTH


---------------------------------------------------------------------------
(* Properties of authentication *)

\* the X-API-Key header is absent, empty or different from the secret
KeyRejected(l) ==
    \/ l.req.key = None
    \/ Val(l.req.key) = ""
    \/ l.req.key # api_secret

\* C14: a request whose key is absent, empty or different from the
\* configured secret (also when no secret is configured) is answered 401
\* with the one error body, with no upstream call, no store read and no
\* store write.
C14_Unauthorized ==
    (IsRequest(last) /\ KeyRejected(last)) =>
        /\ last.status = 401
        /\ last.body = [error |-> "API key is missing or invalid"]
        /\ last.upstream_calls = 0
        /\ last.store_calls = 0
        /\ Len(store) = last.len_before

\* no secret is configured and a request that carries a key was answered 401
C14_Witness ==
    /\ IsRequest(last)
    /\ api_secret = None /\ last.req.key = GoodKey
    /\ last.status = 401 /\ last.upstream_calls = 0 /\ last.store_calls = 0

\* a wrong key was answered 401 by a server whose secret is configured
C14_WrongKeyRejected ==
    /\ last.op = "historical"
    /\ api_secret = Some(Secret) /\ last.req.key = Some("wrong")
    /\ last.status = 401


---------------------------------------------------------------------------
(* Properties of startup *)

\* C15: a backfill step runs only on a created table, and a request is
\* handled only by a process whose table is created and whose backfill
\* loop has gone through all five locations.
C15_StartupOrder ==
    [][ /\ bf_i' = bf_i + 1 => table
        /\ nreq' # nreq =>
              (pc = "serving" /\ table /\ bf_i = Len(locations) + 1) ]_vars

\* the first request of a freshly started process found the rows of all
\* five locations in the store
C15_Witness ==
    /\ IsRequest(last) /\ nreq = 1 /\ boots = 1
    /\ pc = "serving" /\ table /\ bf_i = Len(locations) + 1
    /\ last.len_before = Len(locations) * (24 * HISTORICAL_DAYS + 1)


---------------------------------------------------------------------------
(* Properties of concurrent requests *)

BothDone == inflight # <<>> /\ \A i \in {1, 2} : inflight[i].at = "done"

\* a row without its key
Content(row) == [f \in (DOMAIN row) \ {"id"} |-> row[f]]

\* the same rows, whatever their keys and their order
SameRows(s1, s2) ==
    /\ Len(s1) = Len(s2)
    /\ \A i \in 1..Len(s1) :
           Cardinality({j \in 1..Len(s1) : Content(s1[j]) = Content(s1[i])})
         = Cardinality({j \in 1..Len(s2) : Content(s2[j]) = Content(s1[i])})

\* C16: when two requests handled at the same time have both been
\* answered, the store holds the rows that handling one after the other,
\* in one of the two orders, leaves.
C16_Serializable ==
    BothDone => \E s \in SequentialStores : SameRows(store, s)

\* two Historical requests for the same uncovered range both read the
\* store before either inserted, and the store holds the series twice
C16_DuplicateSeries ==
    /\ BothDone /\ last.overlap
    /\ inflight[1].op = "historical" /\ inflight[1].req = inflight[2].req
    /\ ~inflight[1].try.ok /\ ~inflight[2].try.ok
    /\ Len(store) = 4
    /\ \A s \in SequentialStores : Len(s) = 2

\* handlers that do not overlap leave what handling one after the other leaves
SerialSchedulesAgree ==
    (BothDone /\ ~last.overlap) => store \in SequentialStores


---------------------------------------------------------------------------
(* Properties of the generator and of the fallbacks *)

\* the timestamps of a list of observations
Timestamps(list) == [k \in 1..Len(list) |-> Val(list[k].dt)]

\* C17: for start <= end the generated range holds floor((end-start)/3600)+1
\* observations at start, start+3600, ..., none after end, in an envelope
\* tagged "Synthetic Fallback", and fetch_historical_aqi returns this
\* envelope when its upstream call fails.
C17_RangeSeries ==
    (last.op = "range" /\ last.start <= last.end) =>
        LET n == Len(last.data.list)
        IN  /\ n >= 1
            /\ (n - 1) * HOUR <= last.end - last.start
            /\ last.end - last.start < n * HOUR
            /\ \A k \in 1..n :
                   /\ Timestamps(last.data.list)[k] = last.start + (k - 1) * HOUR
                   /\ Timestamps(last.data.list)[k] <= last.end
            /\ last.data.source = SRC_SYNTH
            /\ ~last.upstream_ok => last.fetched = last.data

\* a range of two hours and one second that starts one second after the
\* hour gave three observations, returned by the failed fetch
C17_Witness ==
    /\ last.op = "range" /\ ~last.upstream_ok
    /\ last.start = Now0 + 1 /\ last.end = last.start + 2 * HOUR + 1
    /\ Len(last.fetched.list) = 3
    /\ Timestamps(last.fetched.list)[3] = last.start + 2 * HOUR

\* a range whose end is its start gave the one observation at start
C17_SinglePoint ==
    /\ last.op = "range" /\ last.start = last.end
    /\ Timestamps(last.data.list) = <<last.start>>


\* C18: when the upstream forecast call fails, fetch_forecast_aqi returns
\* an envelope tagged "Synthetic Fallback" with exactly 32 observations at
\* now, now + 3 h, ..., 10800 seconds apart in ascending order.
C18_ForecastFallback ==
    (last.op = "forecast_fetch" /\ ~last.upstream_ok) =>
        LET ts == Timestamps(last.fetched.list)
        IN  /\ last.fetched.source = SRC_SYNTH
            /\ Len(ts) = 32
            /\ ts[1] = last.t
            /\ \A k \in 1..(Len(ts) - 1) : ts[k + 1] - ts[k] = 10800

\* the forecast call for London failed at one second past 13:00 and the
\* fallback runs from then to 93 hours later
C18_Witness ==
    /\ last.op = "forecast_fetch" /\ ~last.upstream_ok
    /\ last.lat = locations[2].lat
    /\ last.t = Now0 + 13 * HOUR + 1
    /\ Timestamps(last.fetched.list)[32] = last.t + 93 * HOUR


\* the observations an operation of the generator returned
Generated(l) ==
    IF l.op = "generate" THEN l.data.list
    ELSE IF l.op = "range" THEN l.data.list
    ELSE IF l.op = "forecast_fetch" /\ ~l.upstream_ok THEN l.fetched.list
    ELSE <<>>

\* C19: generate(lat, lon, t) returns an envelope with exactly one
\* observation, whose timestamp is t and whose category is an integer from
\* 1 to 5, for every place, timestamp and draw; so is the category of
\* every observation of a generated range or forecast.
C19_OneObservationInRange ==
    /\ last.op = "generate" =>
          /\ Len(last.data.list) = 1
          /\ last.timestamp # None => last.data.list[1].dt = last.timestamp
          /\ last.timestamp = None => last.data.list[1].dt = Some(now)
    /\ \A k \in 1..Len(Generated(last)) :
          Val(Generated(last)[k].aqi) \in 1..5

\* the highest draw around Beijing at midnight: the category is capped at 5
C19_Witness ==
    /\ last.op = "generate"
    /\ last.lat = locations[4].lat /\ last.draw.base = 80
    /\ last.timestamp = Some(Now0)
    /\ last.data.list[1].dt = Some(Now0)
    /\ last.data.list[1].aqi = Some(5)
    /\ 120000 + 4 * Intensity(last.lat, last.lon, Now0, last.draw) >= 6 * 120000

\* 1 + 4 * intensity of a generated observation as a fraction: numerator
\* over 120000
ScoreOf(l) ==
    120000 + 4 * Intensity(l.lat, l.lon, Val(l.data.list[1].dt), l.draw)

Clamp(n) == Min(5, Max(1, n))

\* the integers nearest to num / den (two of them at a tie)
NearestIntegers(num, den) ==
    { n \in 0..(num \div den + 1) : 2 * Abs(num - n * den) <= den }

\* C20 as stated: the category is clamp(round(1 + intensity * 4), 1, 5),
\* whichever way round breaks a tie.
C20_CategoryRounded ==
    last.op = "generate" =>
        Val(last.data.list[1].aqi) \in
            { Clamp(n) : n \in NearestIntegers(ScoreOf(last), 120000) }

\* C20: the category is clamp(n, 1, 5) for the integer n with
\* n <= 1 + intensity * 4 < n + 1: the score is truncated, not rounded.
C20_CategoryTruncated ==
    last.op = "generate" =>
        \E n \in 0..8 :
            /\ n * 120000 <= ScoreOf(last)
            /\ ScoreOf(last) < (n + 1) * 120000
            /\ Val(last.data.list[1].aqi) = Clamp(n)

\* intensity 0.715 (draw 0.55 at midnight, no location multiplier): the
\* score is 3.86 and the category 3
C20_Witness ==
    /\ last.op = "generate"
    /\ last.draw.base = 55 /\ last.lat = locations[1].lat
    /\ last.timestamp = Some(Now0)
    /\ ScoreOf(last) = 463200
    /\ last.data.list[1].aqi = Some(3)

---------------------------------------------------------------------------
(* Properties of the location resolver *)

\* the positions in the fixed list of the locations whose latitude and
\* longitude are both less than 0.1 degree from the point
Qualifying(lat, lon) ==
    { i \in 1..Len(locations) :
          /\ Abs(lat - locations[i].lat) < DEG_TENTH
          /\ Abs(lon - locations[i].lon) < DEG_TENTH }

\* C21: the resolver returns the name of the first location of the fixed
\* list whose latitude and longitude are both within 0.1 degree of the
\* point, and no match when there is none; (39.95, 116.40) is "Beijing"
\* and (39.95, 118.0) is no match.
C21_Resolve ==
    last.op = "resolve" =>
        LET hits == Qualifying(last.lat, last.lon)
        IN  /\ hits = {} => last.name = None
            /\ hits # {} =>
                  \E i \in hits : /\ \A j \in hits : i <= j
                                  /\ last.name = Some(locations[i].name)
            /\ (last.lat = 399500 /\ last.lon = 1164000) => last.name = Some("Beijing")
            /\ (last.lat = 399500 /\ last.lon = 1180000) => last.name = None

\* the point (39.95, 116.40) has been resolved to "Beijing"
C21_Witness ==
    /\ last.op = "resolve"
    /\ last.lat = 399500 /\ last.lon = 1164000
    /\ last.name = Some("Beijing")

\* a point 0.5 degree east of a location has been resolved to no match
C21_HalfDegreeAway ==
    /\ last.op = "resolve"
    /\ last.lat = locations[4].lat /\ last.lon = locations[4].lon + 5 * DEG_TENTH
    /\ last.name = None

---------------------------------------------------------------------------
(* Properties of the location name of a row *)

\* the rows that the last operation added to the table
NewRows == { store[k] : k \in (Len(last.before) + 1)..Len(store) }

\* C22: every row written by save_to_database(data, location_name) carries
\* the name embedded in the envelope when the envelope embeds one, and the
\* parameter only when it embeds none; every row written by the backfill
\* job carries the name of the location being backfilled.
C22_NamePrecedence ==
    /\ last.op = "insert" =>
          \A row \in NewRows :
              row.location_name = IF "location_name" \in DOMAIN last.data
                                  THEN last.data.location_name
                                  ELSE last.location_name
    /\ last.op = "populate" =>
          \A row \in NewRows : row.location_name = Some(locations[last.i].name)

\* an envelope that embeds "Embedded" has been inserted with the parameter
\* "Param", and its rows are in the table
C22_Witness ==
    /\ last.op = "insert"
    /\ "location_name" \in DOMAIN last.data
    /\ last.data.location_name = Some("Embedded")
    /\ last.location_name = Some("Param")
    /\ NewRows # {}
    /\ \A row \in NewRows : row.location_name = Some("Embedded")

\* an envelope without a name has been inserted with the parameter "Param"
C22_ParameterUsed ==
    /\ last.op = "insert"
    /\ "location_name" \notin DOMAIN last.data
    /\ last.location_name = Some("Param")
    /\ NewRows # {}
    /\ \A row \in NewRows : row.location_name = Some("Param")

\* the backfill of Tokyo has written the answer of a provider that named
\* the place "Elsewhere"
C22_BackfillNamed ==
    /\ last.op = "populate" /\ last.i = 3
    /\ last.upstream_ok
    /\ "location_name" \in DOMAIN last.answer
    /\ last.answer.location_name = Some("Elsewhere")
    /\ NewRows # {}
    /\ \A row \in NewRows : row.location_name = Some("Tokyo")

\* the backfill of a location has written a generated series
C22_BackfillGenerated ==
    /\ last.op = "populate" /\ ~last.upstream_ok
    /\ Cardinality(NewRows) = 24 * HISTORICAL_DAYS + 1

---------------------------------------------------------------------------
(* Properties of the source tag *)

SourceTags == {SRC_API, SRC_SYNTH, SRC_DB}

\* C23: every row of the store, and every envelope returned to a caller,
\* carries a source tag that is one of "OpenWeatherMap API", "Synthetic
\* Fallback" and "Local Database"; no row is stored with another tag such
\* as "unknown".
C23_SourceTagged ==
    /\ \A k \in 1..Len(store) : store[k].source \in SourceTags
    /\ (IsRequest(last) /\ last.status = 200) =>
          /\ "source" \in DOMAIN last.body
          /\ last.body.source \in SourceTags

\* a Current request was answered by the provider: the envelope and its row
\* are tagged "OpenWeatherMap API", next to the backfilled synthetic rows
C23_Witness ==
    /\ last.op = "current" /\ last.status = 200 /\ last.upstream_ok
    /\ last.body.source = SRC_API
    /\ Len(store) > last.len_before
    /\ store[Len(store)].source = SRC_API
    /\ \E k \in 1..Len(store) : store[k].source = SRC_SYNTH

\* a Historical request was answered from the store
C23_ServedFromStore ==
    /\ last.op = "historical" /\ last.status = 200
    /\ last.body.source = SRC_DB
    /\ \A k \in 1..Len(last.body.list) : last.body.list[k].source = SRC_SYNTH

---------------------------------------------------------------------------
(* Properties of parameter validation *)

\* the request has no lat or no lon or, on the history endpoint, no start
\* or no end
LacksParameter(l) ==
    \/ l.req.lat = None
    \/ l.req.lon = None
    \/ (l.op = "historical" /\ (l.req.start = None \/ l.req.end = None))

\* the answer is 400, no upstream call was made and the store was neither
\* called nor changed
RejectedUntouched(l) ==
    /\ l.status = 400
    /\ l.upstream_calls = 0
    /\ l.store_calls = 0
    /\ Len(store) = l.len_before

\* C24 as stated: every data request that lacks a required query parameter
\* is answered 400 without any upstream call and without any store write.
C24_MissingParameter ==
    (IsRequest(last) /\ LacksParameter(last)) => RejectedUntouched(last)

\* C24: every data request that carries the configured key and lacks a
\* required query parameter is answered 400 without any upstream call and
\* without any store write.
C24_MissingParameterAuthenticated ==
    (IsRequest(last) /\ LacksParameter(last)
        /\ api_secret # None /\ last.req.key = api_secret)
    => RejectedUntouched(last)

\* a Historical request with the configured key and no end was answered 400
C24_Witness ==
    /\ last.op = "historical"
    /\ api_secret # None /\ last.req.key = api_secret
    /\ last.req.end = None /\ last.req.start # None
    /\ RejectedUntouched(last)

\* a Current request with the configured key and no lon was answered 400
C24_CurrentWithoutLon ==
    /\ last.op = "current"
    /\ api_secret # None /\ last.req.key = api_secret
    /\ last.req.lon = None
    /\ RejectedUntouched(last)

\* a request without key and without lat was answered 401
C24_UnauthenticatedFirst ==
    /\ IsRequest(last) /\ LacksParameter(last)
    /\ last.req.key = None
    /\ last.status = 401

---------------------------------------------------------------------------
(* Properties of the Historical endpoint's use of the store *)

\* the last request was a Historical request that got past the key check
\* and the parameter checks
HistoricalAdmitted == last.op = "historical" /\ AdmittedRange(last.req)

\* the rows the store held, when the request arrived, in the requested box
\* and time range
Held ==
    { store[k] : k \in { n \in 1..last.len_before :
                            InRange(store[n], Val(last.req.lat), Val(last.req.lon),
                                    Val(last.req.start).ts, Val(last.req.end).ts) } }

\* the request was answered with exactly the rows held, tagged "Local
\* Database", without an upstream call and without an insert
ServedFromStore ==
    /\ last.status = 200
    /\ last.body.source = SRC_DB
    /\ last.body.coord = CoordList(Val(last.req.lat), Val(last.req.lon))
    /\ RangeOf(last.body.list) = Held
    /\ Len(last.body.list) = Cardinality(Held)
    /\ last.upstream_calls = 0
    /\ Len(store) = last.len_before

\* C25 as stated: when the store holds at least one row in the requested
\* box and time range the Historical endpoint returns exactly those rows
\* tagged "Local Database", makes no upstream call and inserts nothing; it
\* calls the Historical acquisition only when the store holds none.
C25_StoreFirstWhenHeld ==
    HistoricalAdmitted =>
        /\ Held # {} => ServedFromStore
        /\ last.upstream_calls > 0 => Held = {}

\* C25: when the read of the store returns at least one row the endpoint
\* returns exactly the rows held, tagged "Local Database", makes no
\* upstream call and inserts nothing; it calls the Historical acquisition
\* exactly when the read returns no row, which is when the store holds
\* none in the box and range or the read fails.
C25_StoreFirstWhenReturned ==
    HistoricalAdmitted =>
        LET returned == IF last.qfault THEN {} ELSE Held
        IN  /\ returned # {} => ServedFromStore
            /\ last.upstream_calls > 0 <=> returned = {}

\* a request for a range that the backfilled rows cover in part was
\* answered with the two rows held
C25_Witness ==
    /\ HistoricalAdmitted
    /\ Val(last.req.end).ts = now + HOUR
    /\ Cardinality(Held) = 2
    /\ ServedFromStore

\* the read of a request failed: the rows held were fetched again and
\* a second series was inserted
C25_ReadFailedRefetch ==
    /\ HistoricalAdmitted
    /\ last.qfault /\ ~last.sfault
    /\ Held # {}
    /\ last.upstream_calls = 1
    /\ Len(store) > last.len_before

---------------------------------------------------------------------------
(* Properties of the Current fallback *)

\* the entries of the sample file, when it can be read
FileEntries ==
    IF sampleFile.state = "ok"
    THEN SampleFileItems(sampleFile.written_at, sampleFile.seed)
    ELSE <<>>

\* the positions of the entries within one degree of the point in both axes
NearEntries(lat, lon) ==
    { n \in 1..Len(FileEntries) :
          /\ Abs(Val(FileEntries[n].coord.elems[1]) - lat) < DEG_ONE
          /\ Abs(Val(FileEntries[n].coord.elems[2]) - lon) < DEG_ONE }

\* the first entry near the point is returned, with its own coordinates
\* and timestamp, and nothing is generated
SampleReturned(l) ==
    \E n \in NearEntries(l.lat, l.lon) :
        /\ \A m \in NearEntries(l.lat, l.lon) : n <= m
        /\ l.data.coord = FileEntries[n].coord
        /\ l.data.list = FileEntries[n].list
        /\ l.draws = 0

\* one observation was generated for the requested point and the clock
FreshReturned(l) ==
    /\ l.draws = 1
    /\ l.data.coord = CoordList(l.lat, l.lon)
    /\ Len(l.data.list) = 1
    /\ l.data.list[1].dt = Some(now)

\* the location name of the envelope is what the resolver gives for the
\* requested point: that name, or none
NameIsResolved(l) ==
    LET name == _get_location_name(l.lat, l.lon)
    IN  IF name = None THEN "location_name" \notin DOMAIN l.data
        ELSE "location_name" \in DOMAIN l.data /\ l.data.location_name = name

\* the sample takes precedence over fresh generation, which happens
\* exactly when the file is absent, unreadable or holds no entry near
SamplePrecedence(l) ==
    /\ l.data.source = SRC_SYNTH
    /\ IF NearEntries(l.lat, l.lon) # {} THEN SampleReturned(l) ELSE FreshReturned(l)

\* C26: in the Current fallback the first entry of the sample file within
\* one degree of the request is returned, with its own coordinates and
\* timestamp, and nothing is generated; fresh generation happens only when
\* the file is absent, holds no such entry or cannot be read; the location
\* name of the returned envelope is the resolver's result for the
\* requested coordinates.
C26_SampleFirstNameResolved ==
    last.op = "fallback" => (SamplePrecedence(last) /\ NameIsResolved(last))

\* the precedence of the sample alone
C26_SampleFirst ==
    last.op = "fallback" => SamplePrecedence(last)

\* the name is the resolver's result whenever the resolver has one and the
\* file is absent or readable
C26_NameWhenResolvedAndReadable ==
    (last.op = "fallback" /\ sampleFile.state # "corrupt"
        /\ _get_location_name(last.lat, last.lon) # None)
    => NameIsResolved(last)

\* the file cannot be read and the fallback for New York carries no name
C26_UnreadableNameless ==
    /\ last.op = "fallback" /\ sampleFile.state = "corrupt"
    /\ last.lat = locations[1].lat /\ last.lon = locations[1].lon
    /\ FreshReturned(last)
    /\ "location_name" \notin DOMAIN last.data

\* half a degree from New York the resolver has no match, and the envelope
\* returned is the sample of New York under its own name
C26_SampleNameKept ==
    /\ last.op = "fallback" /\ sampleFile.state = "ok"
    /\ last.lat = Val(PlaceHalfDegree.lat) /\ last.lon = Val(PlaceHalfDegree.lon)
    /\ _get_location_name(last.lat, last.lon) = None
    /\ SampleReturned(last)
    /\ last.data.location_name = Some("New York")

---------------------------------------------------------------------------
(* Properties of repeated Historical requests *)

\* this step handles a Historical request with the parameters of the
\* request handled just before it
SameAsBefore ==
    /\ last.op = "historical"
    /\ last'.op = "historical"
    /\ last'.req = last.req
    /\ Val(last.req.start).ts <= Val(last.req.end).ts

\* this step answers from the store and adds no row
AnsweredFromStore ==
    /\ last'.status = 200
    /\ last'.body.source = SRC_DB
    /\ store' = store

\* the envelope that answered request l holds an observation in the box
\* and time range of l
AnsweredInRange(l) ==
    \/ l.body.source = SRC_DB
    \/ LET c == ExtractCoord(l.body)
           obs == Observations(l.body)
       IN  /\ c.ok /\ c.lat # None /\ c.lon # None
           /\ Abs(Val(c.lat) - Val(l.req.lat)) <= DEG_TENTH
           /\ Abs(Val(c.lon) - Val(l.req.lon)) <= DEG_TENTH
           /\ \E k \in 1..Len(obs) :
                  /\ obs[k].dt # None
                  /\ Val(l.req.start).ts <= Val(obs[k].dt)
                  /\ Val(obs[k].dt) <= Val(l.req.end).ts

\* C27 as stated: after a Historical request with start <= end has been
\* answered and persisted, a later request with the same parameters is
\* answered from the store tagged "Local Database" and adds no row, no
\* storage failure occurring in either.
C27_InsertedOnce ==
    [][ (SameAsBefore /\ last.status = 200
            /\ ~last.qfault /\ ~last.sfault /\ ~last'.qfault /\ ~last'.sfault)
        => AnsweredFromStore ]_vars

\* C27: after a Historical request with start <= end has been answered
\* with at least one observation in its box and time range and persisted
\* without storage failure, a later request with the same parameters
\* whose read of the store succeeds is answered from the store tagged
\* "Local Database" and adds no row.
C27_InsertedOnceWhenInRange ==
    [][ (SameAsBefore /\ last.status = 200 /\ ~last.sfault
            /\ AnsweredInRange(last) /\ ~last'.qfault)
        => AnsweredFromStore ]_vars

\* the second of two requests was answered from the store with the two
\* rows that the first one inserted
C27_Witness ==
    /\ nreq = 2
    /\ last.op = "historical" /\ last.status = 200
    /\ last.body.source = SRC_DB
    /\ Len(store) = 2 /\ last.len_before = 2
    /\ Len(last.body.list) = 2

\* the third request was answered from the store, like the second
C27_ThirdFromStore ==
    /\ nreq = 3
    /\ last.op = "historical" /\ last.body.source = SRC_DB
    /\ Len(store) = 1 /\ last.len_before = 1
    /\ Val(last.req.start).ts = Val(last.req.end).ts

\* the provider answered the first request with an empty list; the second
\* request found the store empty, and its synthetic series is the first
\* thing in the table
C27_EmptyAnswerRefetched ==
    /\ nreq = 2
    /\ last.op = "historical" /\ ~last.qfault /\ ~last.sfault
    /\ last.body.source = SRC_SYNTH
    /\ last.len_before = 0 /\ Len(store) = 2
    /\ rng = 2

====
